---- MODULE Spec2Model ----
(***************************************************************************)
(* Model of the PyArchInit web API.                                        *)
(*                                                                         *)
(* backend/app/routers/media.py: the SimpleTTLCache class, the two         *)
(* module-level cache instances with the module-level cache_lock, the      *)
(* asynchronous handlers that use them (CacheSpec, Spec), URL resolution   *)
(* and the metadata endpoints with get_media_category of schemas.py        *)
(* (MediaSpec).  backend/app/routers/export.py: the export handlers        *)
(* (ExportSpec).  backend/app/routers/materiali.py: the materials summary  *)
(* (MaterialiSpec).                                                        *)
(*                                                                         *)
(* Time is the value of time.time(), counted in whole units.  The          *)
(* capacities and lifetimes of the two instances are scaled down (the      *)
(* thumbnail cache keeps the larger capacity and the longer lifetime).     *)
(***************************************************************************)
EXTENDS Integers, Naturals, Sequences, FiniteSets, TLC

\* ---------------------------------------------------------------- bounds
\* The capacities and lifetimes stand for maxsize=500, ttl=3600 and
\* maxsize=100, ttl=1800.
MaxTime == 3
NumRequests == 2
MaxMediaId == 1
NumKeys == 3
NumPayloads == 2
MaxListed == 2
MaxRows == 3
MaxPage == 3
MaxPageSize == 2
ThumbMaxsize == 2
ThumbTtl == 2
FullMaxsize == 1
FullTtl == 1

\* ------------------------------------------------------ the two instances
Caches == {"thumbnail_cache", "full_image_cache"}

maxsize(c) == IF c = "thumbnail_cache" THEN ThumbMaxsize ELSE FullMaxsize

ttl(c) == IF c = "thumbnail_cache" THEN ThumbTtl ELSE FullTtl

MediaIds == 1..MaxMediaId

Payloads == 1..NumPayloads

\* Python's None; the payloads are the positive numbers
None == 0

\* --------------------------------------------------------- the cache keys
Digit(d) == <<"0", "1", "2", "3", "4", "5", "6", "7", "8", "9">>[d + 1]

RECURSIVE str(_)
str(n) == IF n < 10 THEN <<Digit(n)>> ELSE str(n \div 10) \o <<Digit(n % 10)>>

thumb_key(media_id) == <<"t", "h", "u", "m", "b", "_">> \o str(media_id)

full_key(media_id) == <<"f", "u", "l", "l", "_">> \o str(media_id)

\* the keys the class is called with directly: those of NumKeys media
Keys(c) == IF c = "thumbnail_cache" THEN {thumb_key(i) : i \in 1..NumKeys}
           ELSE {full_key(i) : i \in 1..NumKeys}

\* ------------------------------------------------------- SimpleTTLCache
\* The dict _cache is a sequence of entries in insertion order (a Python
\* dict iterates in insertion order, and assigning to an existing key keeps
\* its position).
Entry(k, v, ts) == [k |-> k, v |-> v, ts |-> ts]

has_key(m, k) == \E i \in 1..Len(m) : m[i].k = k

index_of(m, k) == CHOOSE i \in 1..Len(m) : m[i].k = k

dict_del(m, k) == SelectSeq(m, LAMBDA e : e.k # k)

\* variant: assigning to an existing key leaves its old timestamp
dict_put_keep_ts(m, k, v, ts) ==
    IF has_key(m, k)
    THEN [m EXCEPT ![index_of(m, k)] = Entry(k, v, m[index_of(m, k)].ts)]
    ELSE Append(m, Entry(k, v, ts))

dict_put(m, k, v, ts) ==
    IF has_key(m, k)
    THEN [m EXCEPT ![index_of(m, k)] = Entry(k, v, ts)]
    ELSE Append(m, Entry(k, v, ts))

\* variant: an entry aged exactly ttl counts as expired
is_expired_at_ttl(c, timestamp, t) == t - timestamp >= ttl(c)

is_expired(c, timestamp, t) == t - timestamp > ttl(c)

\* sorted(items, key=timestamp)[0]: the first entry, in dict order, among
\* those with the smallest timestamp (the sort is stable).
oldest_index(m) ==
    CHOOSE i \in 1..Len(m) :
        /\ \A j \in 1..Len(m) : m[i].ts <= m[j].ts
        /\ \A j \in 1..(i - 1) : m[j].ts > m[i].ts

RECURSIVE drop_oldest(_, _)
drop_oldest(m, n) ==
    IF n <= 0 \/ m = <<>> THEN m
    ELSE drop_oldest(dict_del(m, m[oldest_index(m)].k), n - 1)

enforce_maxsize(c, m) ==
    IF Len(m) > maxsize(c) THEN drop_oldest(m, Len(m) - maxsize(c)) ELSE m

remove_expired(c, m, t) == SelectSeq(m, LAMBDA e : ~(t - e.ts > ttl(c)))

\* variant: the sweep of expired entries is left out
cleanup_no_sweep(c, m, t) == enforce_maxsize(c, m)

cleanup(c, m, t) == enforce_maxsize(c, remove_expired(c, m, t))

\* variant: a hit refreshes the timestamp of the entry (LRU)
get_refresh(c, m, k, t) ==
    IF has_key(m, k)
    THEN LET e == m[index_of(m, k)]
         IN  IF ~is_expired(c, e.ts, t)
             THEN [ret |-> e.v, map |-> dict_put(m, k, e.v, t)]
             ELSE [ret |-> None, map |-> dict_del(m, k)]
    ELSE [ret |-> None, map |-> m]

\* get returns the pair (returned value, mapping left behind)
get(c, m, k, t) ==
    IF has_key(m, k)
    THEN LET e == m[index_of(m, k)]
         IN  IF ~is_expired(c, e.ts, t)
             THEN [ret |-> e.v, map |-> m]
             ELSE [ret |-> None, map |-> dict_del(m, k)]
    ELSE [ret |-> None, map |-> m]

\* variant: the entry is written without the sweep
set_no_cleanup(c, m, k, v, t) == dict_put(m, k, v, t)

set(c, m, k, v, t) == dict_put(cleanup(c, m, t), k, v, t)

contains(c, m, k, t) ==
    [ret |-> get(c, m, k, t).ret # None, map |-> get(c, m, k, t).map]

\* variant: the size is reported without the sweep
len_raw(c, m, t) == [ret |-> Len(m), map |-> m]

len(c, m, t) == [ret |-> Len(cleanup(c, m, t)), map |-> cleanup(c, m, t)]

\* variant: one entry is removed (popitem) instead of all of them
clear_popitem(c, m) == SubSeq(m, 1, Len(m) - 1)

clear(c, m) == <<>>

\* ---------------------------------------------------------------- strings
\* A str is a sequence of atoms: an atom is one delimiter character
\* (".", "/", ":", " ") or a run of other characters.  An Optional[str] is
\* NoneStr or Some(s).
NoneStr == <<>>

Some(s) == <<s>>

\* Python truthiness of an Optional[str]: None and "" are false
Truthy(o) == o # NoneStr /\ o[1] # <<>>

\* `a or b'
Or(a, b) == IF Truthy(a) THEN a ELSE b

\* str.lower() on the runs that carry upper-case letters
lower_atom(a) ==
    CASE a = "MP4" -> "mp4"
      [] a = "PNG" -> "png"
      [] a = "JPG" -> "jpg"
      [] a = "GLB" -> "glb"
      [] a = "Video" -> "video"
      [] a = "FOTO" -> "foto"
      [] a = "Mesh" -> "mesh"
      [] OTHER -> a

lower(s) == [i \in DOMAIN s |-> lower_atom(s[i])]

RECURSIVE lstrip(_, _)
lstrip(s, ch) == IF s # <<>> /\ Head(s) = ch THEN lstrip(Tail(s), ch) ELSE s

RECURSIVE rstrip(_, _)
rstrip(s, ch) == IF s # <<>> /\ s[Len(s)] = ch
                 THEN rstrip(SubSeq(s, 1, Len(s) - 1), ch) ELSE s

\* str.strip(): white space off both ends
strip(s) == rstrip(lstrip(s, " "), " ")

\* `ch in s'
in_str(ch, s) == \E i \in DOMAIN s : s[i] = ch

\* variant: s.split(ch)[1:], what follows the first ch
RECURSIVE split_after_first(_, _)
split_after_first(s, ch) ==
    IF s = <<>> THEN <<>>
    ELSE IF Head(s) = ch THEN Tail(s) ELSE split_after_first(Tail(s), ch)

\* s.split(ch)[-1]: what follows the last ch
RECURSIVE split_last(_, _)
split_last(s, ch) ==
    IF in_str(ch, s) THEN split_last(Tail(s), ch) ELSE s

\* urllib.parse.quote(s, safe=''): only letters, digits and "_.-~" are kept
quote_atom(a) ==
    CASE a = "/" -> "%2F"
      [] a = ":" -> "%3A"
      [] a = " " -> "%20"
      [] OTHER -> a

quote(s) == [i \in DOMAIN s |-> quote_atom(s[i])]

\* ------------------------------------------------------- media categories
get_media_category(filename, filetype, mediatype) ==
    LET mt == IF Truthy(mediatype) THEN strip(lower(mediatype[1])) ELSE <<>>
        ext == IF Truthy(filetype)
               THEN lstrip(lower(filetype[1]), ".")
               ELSE IF Truthy(filename)
               THEN IF in_str(".", filename[1])
                    THEN lower(split_last(filename[1], "."))
                    ELSE <<>>
               ELSE <<>>
    IN  IF mt \in {<<"image">>, <<"foto">>, <<"photo">>, <<"img">>}
        THEN "image"
        ELSE IF mt \in {<<"video">>, <<"movie">>, <<"film">>}
        THEN "video"
        ELSE IF mt \in {<<"3d">>, <<"model">>, <<"3dmodel">>, <<"mesh">>}
        THEN "3d"
        ELSE IF ext \in {<<"jpg">>, <<"jpeg">>, <<"png">>, <<"gif">>,
                         <<"webp">>, <<"bmp">>, <<"tiff">>, <<"tif">>}
        THEN "image"
        ELSE IF ext \in {<<"mp4">>, <<"webm">>, <<"avi">>, <<"mov">>,
                         <<"mkv">>, <<"wmv">>, <<"flv">>, <<"m4v">>}
        THEN "video"
        ELSE IF ext \in {<<"glb">>, <<"gltf">>, <<"obj">>, <<"fbx">>,
                         <<"stl">>, <<"ply">>, <<"3ds">>, <<"dae">>}
        THEN "3d"
        ELSE "image"

\* ------------------------------------------------------------------ state
VARIABLES
    now,        \* time.time()
    cache,      \* cache[c]: the _cache dict of instance c
    cache_lock, \* the request holding cache_lock, or NoHolder
    cloudinary, \* settings.CLOUDINARY_ENABLED
    req,        \* req[r]: the request handled by task r
    last,       \* the last direct SimpleTTLCache call, with its result
    run,        \* the direct sets of distinct keys since the instance was empty
    resp,       \* the last response of a handler that runs in one step
    db,         \* the rows of the table that the paginated endpoints read
    prev        \* the page served before resp, if of the same listing

vars == <<now, cache, cache_lock, cloudinary, req, last, run, resp,
               db, prev>>

Requests == 1..NumRequests

NoHolder == 0

\* remote statuses other than 200
RemoteErrors == {404, 503}

\* remote: response.status_code of the storage server (0: no response);
\* request_error: client.get raised httpx.RequestError
IdleReq == [handler |-> "none", media_id |-> 0, pc |-> "idle",
            image_data |-> None, fetches |-> 0, status |-> 0,
            x_cache |-> "none", remote |-> 0, request_error |-> FALSE]

\* follows: the call before this one was a set of the same key of the same
\* instance; before: the number of entries of the dict when the call began
NoCall == [op |-> "none", cache |-> "none", key |-> <<>>, value |-> None,
           time |-> 0, ret |-> None, follows |-> FALSE, before |-> 0]

Call(op, c, k, v, r) ==
    [op |-> op, cache |-> c, key |-> k, value |-> v, time |-> now, ret |-> r,
     follows |-> last.op = "set" /\ last.cache = c /\ last.key = k,
     before |-> Len(cache[c])]

NoRun == [cache |-> "none", keys |-> <<>>, t0 |-> 0]

\* no handler of that kind has answered yet
NoResp == [endpoint |-> "none", status |-> 0, total |-> 0, items |-> <<>>]

Init ==
    /\ now = 0
    /\ cache = [c \in Caches |-> <<>>]
    /\ cache_lock = NoHolder
    /\ cloudinary \in BOOLEAN
    /\ req = [r \in Requests |-> IdleReq]
    /\ last = NoCall
    /\ run = NoRun
    /\ resp = NoResp
    /\ db = {}
    /\ prev = NoResp

Tick ==
    /\ now < MaxTime
    /\ now' = now + 1
    /\ UNCHANGED <<cache, cache_lock, cloudinary, req, last, run, resp,
               db, prev>>

\* ---------------------------------------- the class, called directly
\* One instance is exercised at a time: the instances share no state
\* (each has its own _cache dict).
Alone(c) == \A d \in Caches \ {c} : cache[d] = <<>>

CacheSet(c, k, v) ==
    /\ Alone(c)
    /\ cache' = [cache EXCEPT ![c] = set(c, cache[c], k, v, now)]
    /\ last' = Call("set", c, k, v, None)
    /\ run' = IF cache[c] = <<>>
              THEN [cache |-> c, keys |-> <<k>>, t0 |-> now]
              ELSE IF run.cache = c
                      /\ \A i \in 1..Len(run.keys) : run.keys[i] # k
                   THEN [run EXCEPT !.keys = Append(@, k)]
                   ELSE NoRun
    /\ UNCHANGED <<now, cache_lock, cloudinary, req, resp, db, prev>>

CacheGet(c, k) ==
    /\ Alone(c)
    /\ cache' = [cache EXCEPT ![c] = get(c, cache[c], k, now).map]
    /\ last' = Call("get", c, k, None, get(c, cache[c], k, now).ret)
    /\ run' = NoRun
    /\ UNCHANGED <<now, cache_lock, cloudinary, req, resp, db, prev>>

CacheContains(c, k) ==
    /\ Alone(c)
    /\ cache' = [cache EXCEPT ![c] = contains(c, cache[c], k, now).map]
    /\ last' = Call("contains", c, k, None, contains(c, cache[c], k, now).ret)
    /\ run' = NoRun
    /\ UNCHANGED <<now, cache_lock, cloudinary, req, resp, db, prev>>

CacheLen(c) ==
    /\ Alone(c)
    /\ cache' = [cache EXCEPT ![c] = len(c, cache[c], now).map]
    /\ last' = Call("len", c, <<>>, None, len(c, cache[c], now).ret)
    /\ run' = NoRun
    /\ UNCHANGED <<now, cache_lock, cloudinary, req, resp, db, prev>>

CacheClear(c) ==
    /\ Alone(c)
    /\ cache' = [cache EXCEPT ![c] = clear(c, cache[c])]
    /\ last' = Call("clear", c, <<>>, None, None)
    /\ run' = NoRun
    /\ UNCHANGED <<now, cache_lock, cloudinary, req, resp, db, prev>>

CacheNext ==
    \/ Tick
    \/ \E c \in Caches : \E k \in Keys(c), v \in Payloads : CacheSet(c, k, v)
    \/ \E c \in Caches : \E k \in Keys(c) : CacheGet(c, k)
    \/ \E c \in Caches : \E k \in Keys(c) : CacheContains(c, k)
    \/ \E c \in Caches : CacheLen(c)
    \/ \E c \in Caches : CacheClear(c)

CacheSpec == Init /\ [][CacheNext]_vars

TypeOK ==
    /\ now \in 0..MaxTime
    /\ \A c \in Caches : \A i \in 1..Len(cache[c]) :
          /\ cache[c][i].k \in Keys(c)
          /\ cache[c][i].v \in Payloads
          /\ cache[c][i].ts \in 0..now
    /\ \A c \in Caches : \A i, j \in 1..Len(cache[c]) :
          i # j => cache[c][i].k # cache[c][j].k

\* ------------------------------------------------------- the handlers
\* One action per stretch of handler code between two points where the
\* coroutine may be suspended: entering `async with cache_lock', the
\* awaited client.get, and leaving `async with httpx.AsyncClient()'.
\* The database and the storage server are outside: what they answer is an
\* input of the step that asks them.
\* variant: one cache serves both endpoints
cache_of_shared(h) == "thumbnail_cache"

cache_of(h) == IF h = "get_thumbnail" THEN "thumbnail_cache"
               ELSE "full_image_cache"

cache_key(h, media_id) == IF h = "get_thumbnail" THEN thumb_key(media_id)
                          ELSE full_key(media_id)

Proxied(r) == req[r].handler \in {"get_thumbnail", "get_full_image"}

\* a new request is taken by the idle task with the lowest number
Free(r) == /\ req[r].pc = "idle"
           /\ \A q \in Requests : q < r => req[q].pc # "idle"

\* variant: the content is proxied whatever settings.CLOUDINARY_ENABLED is
StartImage_no_redirect(r, h, media_id, record) ==
    /\ Free(r)
    /\ h \in {"get_thumbnail", "get_full_image"}
    /\ req' = [req EXCEPT ![r] =
          IF record = "no_record" \/ record = "no_path"
          THEN [IdleReq EXCEPT !.handler = h, !.media_id = media_id,
                               !.pc = "done", !.status = 404]
          ELSE [IdleReq EXCEPT !.handler = h, !.media_id = media_id,
                               !.pc = "lookup_wait"]]
    /\ UNCHANGED <<now, cache, cache_lock, cloudinary, last, run, resp,
               db, prev>>

\* get_thumbnail / get_full_image up to the call of fetch_and_cache_image;
\* record: what the MediaThumb query finds
StartImage(r, h, media_id, record) ==
    /\ Free(r)
    /\ h \in {"get_thumbnail", "get_full_image"}
    /\ req' = [req EXCEPT ![r] =
          IF record = "no_record" \/ record = "no_path"
          THEN [IdleReq EXCEPT !.handler = h, !.media_id = media_id,
                               !.pc = "done", !.status = 404]
          ELSE IF cloudinary
          THEN [IdleReq EXCEPT !.handler = h, !.media_id = media_id,
                               !.pc = "done", !.status = 302]
          ELSE [IdleReq EXCEPT !.handler = h, !.media_id = media_id,
                               !.pc = "lookup_wait"]]
    /\ UNCHANGED <<now, cache, cache_lock, cloudinary, last, run, resp,
               db, prev>>

\* `async with cache_lock:' entered (asyncio.Lock.acquire)
Acquire(r) ==
    /\ req[r].pc \in {"lookup_wait", "store_wait", "clear_wait"}
    /\ cache_lock = NoHolder
    /\ cache_lock' = r
    /\ req' = [req EXCEPT ![r].pc =
                  IF @ = "lookup_wait" THEN "lookup"
                  ELSE IF @ = "store_wait" THEN "store" ELSE "clear"]
    /\ UNCHANGED <<now, cache, cloudinary, last, run, resp,
               db, prev>>

\* variant: the lock stays held while the fetch is outstanding
Lookup_holding(r) ==
    /\ req[r].pc = "lookup"
    /\ cache_lock = r
    /\ LET c == cache_of(req[r].handler)
           g == get(c, cache[c], cache_key(req[r].handler, req[r].media_id), now)
       IN  /\ cache' = [cache EXCEPT ![c] = g.map]
           /\ IF g.ret # None
              THEN /\ req' = [req EXCEPT ![r].pc = "respond",
                                         ![r].image_data = g.ret]
                   /\ cache_lock' = NoHolder
              ELSE /\ req' = [req EXCEPT ![r].pc = "fetching",
                                         ![r].fetches = @ + 1]
                   /\ cache_lock' = r
    /\ UNCHANGED <<now, cloudinary, last, run, resp,
               db, prev>>

\* fetch_and_cache_image: the cache check under the lock; on a miss the
\* lock is released and client.get is awaited
Lookup(r) ==
    /\ req[r].pc = "lookup"
    /\ cache_lock = r
    /\ LET c == cache_of(req[r].handler)
           g == get(c, cache[c], cache_key(req[r].handler, req[r].media_id), now)
       IN  /\ cache' = [cache EXCEPT ![c] = g.map]
           /\ req' = IF g.ret # None
                     THEN [req EXCEPT ![r].pc = "respond",
                                      ![r].image_data = g.ret]
                     ELSE [req EXCEPT ![r].pc = "fetching",
                                      ![r].fetches = @ + 1]
    /\ cache_lock' = NoHolder
    /\ UNCHANGED <<now, cloudinary, last, run, resp,
               db, prev>>

\* public_image_proxy up to the awaited client.get: no cache is used
StartProxy(r, folder) ==
    /\ Free(r)
    /\ req' = [req EXCEPT ![r] =
          IF folder \notin {"thumbnail", "original"}
          THEN [IdleReq EXCEPT !.handler = "public_image_proxy",
                               !.pc = "done", !.status = 400]
          ELSE [IdleReq EXCEPT !.handler = "public_image_proxy",
                               !.pc = "fetching", !.fetches = 1]]
    /\ UNCHANGED <<now, cache, cache_lock, cloudinary, last, run, resp,
               db, prev>>

\* client.get returned status 200 with the payload: fetch_and_cache_image
\* goes on to store it, public_image_proxy returns it
FetchOk(r, payload) ==
    /\ req[r].pc = "fetching"
    /\ req' = IF req[r].handler = "public_image_proxy"
              THEN [req EXCEPT ![r].pc = "done", ![r].image_data = payload,
                               ![r].remote = 200, ![r].status = 200]
              ELSE [req EXCEPT ![r].pc = "store_wait",
                               ![r].image_data = payload, ![r].remote = 200]
    /\ UNCHANGED <<now, cache, cache_lock, cloudinary, last, run, resp,
               db, prev>>

\* variant: every upstream failure is answered with 500
FetchStatus_as_500(r, status_code) ==
    /\ req[r].pc = "fetching"
    /\ req' = [req EXCEPT ![r].pc = "done", ![r].status = 500,
                          ![r].remote = status_code]
    /\ UNCHANGED <<now, cache, cache_lock, cloudinary, last, run, resp,
               db, prev>>

\* variant: a failed fetch invalidates the entry of the key
FetchStatus_evicting(r, status_code) ==
    /\ req[r].pc = "fetching"
    /\ req' = [req EXCEPT ![r].pc = "done", ![r].status = status_code,
                          ![r].remote = status_code]
    /\ cache' = IF Proxied(r)
                THEN [cache EXCEPT ![cache_of(req[r].handler)] =
                        IF has_key(@, cache_key(req[r].handler,
                                                req[r].media_id))
                        THEN dict_del(@, cache_key(req[r].handler,
                                                   req[r].media_id))
                        ELSE @]
                ELSE cache
    /\ UNCHANGED <<now, cache_lock, cloudinary, last, run, resp, db, prev>>

\* client.get returned another status: HTTPException(status_code) leaves
\* the handler (its except clause takes httpx.RequestError only)
FetchStatus(r, status_code) ==
    /\ req[r].pc = "fetching"
    /\ req' = [req EXCEPT ![r].pc = "done", ![r].status = status_code,
                          ![r].remote = status_code]
    /\ UNCHANGED <<now, cache, cache_lock, cloudinary, last, run, resp,
               db, prev>>

\* variant: the except clause answers 502 (bad gateway)
FetchError_as_502(r) ==
    /\ req[r].pc = "fetching"
    /\ req' = [req EXCEPT ![r].pc = "done", ![r].status = 502,
                          ![r].request_error = TRUE]
    /\ UNCHANGED <<now, cache, cache_lock, cloudinary, last, run, resp,
               db, prev>>

\* variant: after httpx.RequestError the fetch is attempted once more
FetchError_retry(r) ==
    /\ req[r].pc = "fetching"
    /\ req' = IF req[r].fetches < 2
              THEN [req EXCEPT ![r].fetches = @ + 1]
              ELSE [req EXCEPT ![r].pc = "done", ![r].status = 500,
                               ![r].request_error = TRUE]
    /\ UNCHANGED <<now, cache, cache_lock, cloudinary, last, run, resp,
               db, prev>>

\* client.get raised httpx.RequestError: the handler answers 500
FetchError(r) ==
    /\ req[r].pc = "fetching"
    /\ req' = [req EXCEPT ![r].pc = "done", ![r].status = 500,
                          ![r].request_error = TRUE]
    /\ UNCHANGED <<now, cache, cache_lock, cloudinary, last, run, resp,
               db, prev>>

\* variant: the payload is stored only if the key is absent (setdefault)
Store_if_absent(r) ==
    /\ req[r].pc = "store"
    /\ cache_lock = r
    /\ LET c == cache_of(req[r].handler)
           k == cache_key(req[r].handler, req[r].media_id)
       IN  cache' = [cache EXCEPT ![c] =
                        IF has_key(cleanup(c, cache[c], now), k)
                        THEN cleanup(c, cache[c], now)
                        ELSE set(c, cache[c], k, req[r].image_data, now)]
    /\ cache_lock' = NoHolder
    /\ req' = [req EXCEPT ![r].pc = "respond"]
    /\ UNCHANGED <<now, cloudinary, last, run, resp,
               db, prev>>

\* fetch_and_cache_image: cache.set under the lock
Store(r) ==
    /\ req[r].pc = "store"
    /\ cache_lock = r
    /\ LET c == cache_of(req[r].handler)
       IN  cache' = [cache EXCEPT ![c] =
                        set(c, cache[c],
                            cache_key(req[r].handler, req[r].media_id),
                            req[r].image_data, now)]
    /\ cache_lock' = NoHolder
    /\ req' = [req EXCEPT ![r].pc = "respond"]
    /\ UNCHANGED <<now, cloudinary, last, run, resp,
               db, prev>>

\* the Response is built: X-Cache is `cache_key in cache', taken without
\* the lock
Respond(r) ==
    /\ req[r].pc = "respond"
    /\ LET c == cache_of(req[r].handler)
           x == contains(c, cache[c],
                         cache_key(req[r].handler, req[r].media_id), now)
       IN  /\ cache' = [cache EXCEPT ![c] = x.map]
           /\ req' = [req EXCEPT ![r].pc = "done", ![r].status = 200,
                         ![r].x_cache = IF x.ret THEN "HIT" ELSE "MISS"]
    /\ UNCHANGED <<now, cache_lock, cloudinary, last, run, resp,
               db, prev>>

\* get_cache_stats: len() of both caches, without the lock
CacheStats(r) ==
    /\ Free(r)
    /\ cache' = [c \in Caches |-> len(c, cache[c], now).map]
    /\ req' = [req EXCEPT ![r] =
                  [IdleReq EXCEPT !.handler = "get_cache_stats",
                                  !.pc = "done", !.status = 200]]
    /\ UNCHANGED <<now, cache_lock, cloudinary, last, run, resp,
               db, prev>>

\* clear_cache up to `async with cache_lock:'
StartClear(r) ==
    /\ Free(r)
    /\ req' = [req EXCEPT ![r] =
                  [IdleReq EXCEPT !.handler = "clear_cache",
                                  !.pc = "clear_wait"]]
    /\ UNCHANGED <<now, cache, cache_lock, cloudinary, last, run, resp,
               db, prev>>

\* variant: the clear also cancels the store of the fetches in flight
ClearCache_invalidating(r) ==
    /\ req[r].pc = "clear"
    /\ cache_lock = r
    /\ cache' = [c \in Caches |-> clear(c, cache[c])]
    /\ cache_lock' = NoHolder
    /\ req' = [q \in Requests |->
                 IF q = r
                 THEN [req[q] EXCEPT !.pc = "done", !.status = 200]
                 ELSE IF req[q].pc = "store_wait"
                 THEN [req[q] EXCEPT !.pc = "respond"]
                 ELSE req[q]]
    /\ UNCHANGED <<now, cloudinary, last, run, resp, db, prev>>

\* clear_cache: both caches cleared under the lock
ClearCache(r) ==
    /\ req[r].pc = "clear"
    /\ cache_lock = r
    /\ cache' = [c \in Caches |-> clear(c, cache[c])]
    /\ cache_lock' = NoHolder
    /\ req' = [req EXCEPT ![r].pc = "done", ![r].status = 200]
    /\ UNCHANGED <<now, cloudinary, last, run, resp,
               db, prev>>

\* the response went out; the task serves the next request
Finish(r) ==
    /\ req[r].pc = "done"
    /\ req' = [req EXCEPT ![r] = IdleReq]
    /\ UNCHANGED <<now, cache, cache_lock, cloudinary, last, run, resp,
               db, prev>>

\* ------------------------------------------------------- URL resolution
\* settings.BACKEND_PUBLIC_URL comes from the environment (Settings allows
\* extra values); the value here ends with a slash for rstrip to remove
BACKEND_PUBLIC_URL == <<"https", ":", "/", "/", "backend", "/">>

CLOUDINARY_CLOUD_NAME == <<"dkioeufik">>

get_public_proxy_url(filepath, is_thumbnail) ==
    IF ~Truthy(filepath) THEN NoneStr
    ELSE LET base_url == rstrip(BACKEND_PUBLIC_URL, "/")
             folder == IF is_thumbnail THEN "thumbnail" ELSE "original"
             path == IF Head(filepath[1]) = "/" THEN Tail(filepath[1])
                     ELSE filepath[1]
         IN  Some(base_url
                  \o <<"/", "api", "/", "media", "/", "public", "/",
                       folder, "/">>
                  \o path)

transformations(is_thumbnail) ==
    IF is_thumbnail THEN <<"f_auto,q_auto,w_150,h_150,c_fill">>
    ELSE <<"f_auto,q_auto", ":", "good,w_1200,c_limit">>

get_cloudinary_url(filepath, is_thumbnail) ==
    IF ~Truthy(filepath) THEN NoneStr
    ELSE LET proxy_url == get_public_proxy_url(filepath, is_thumbnail)
             encoded_url == quote(proxy_url[1])
         IN  Some(<<"https", ":", "/", "/", "res", ".", "cloudinary", ".",
                    "com", "/">>
                  \o CLOUDINARY_CLOUD_NAME
                  \o <<"/", "image", "/", "fetch", "/">>
                  \o transformations(is_thumbnail)
                  \o <<"/">>
                  \o encoded_url)

\* variant: the CDN is used for every category
get_media_url_any_category(filepath, is_thumbnail, media_cat) ==
    IF ~Truthy(filepath) THEN NoneStr
    ELSE IF cloudinary THEN get_cloudinary_url(filepath, is_thumbnail)
    ELSE get_public_proxy_url(filepath, is_thumbnail)

get_media_url(filepath, is_thumbnail, media_cat) ==
    IF ~Truthy(filepath) THEN NoneStr
    ELSE IF cloudinary /\ media_cat = "image"
    THEN get_cloudinary_url(filepath, is_thumbnail)
    ELSE get_public_proxy_url(filepath, is_thumbnail)

\* ------------------------------------------------- the metadata endpoints
\* The handlers below have no await: each runs in one step.  What the
\* database queries find is an input of the step.
Filenames ==
    {NoneStr, Some(<<"a">>),
     Some(<<"a", ".", "mp4">>), Some(<<"a", ".", "MP4">>),
     Some(<<"a", ".", "tar", ".", "mp4">>),
     Some(<<"a", ".", "glb">>), Some(<<"a", ".", "png">>),
     Some(<<"a", ".", "xyz">>)}

Filetypes ==
    {NoneStr, Some(<<>>), Some(<<".">>), Some(<<"jpg">>),
     Some(<<".", "MP4">>), Some(<<"xyz">>)}

Mediatypes ==
    {NoneStr, Some(<<"video">>), Some(<<" ", "Video", " ">>),
     Some(<<"FOTO">>), Some(<<"3d">>), Some(<<"xyz">>)}

Filepaths ==
    {NoneStr, Some(<<>>), Some(<<"a", ".", "png">>),
     Some(<<"/", "dir", "/", "a", " ", "b", ".", "png">>)}

\* a MediaThumb row
Row(i, fn, mt, ft, fp, pr) ==
    [id_media |-> i, media_filename |-> fn, mediatype |-> mt,
     filetype |-> ft, filepath |-> fp, path_resize |-> pr]

\* `.first()' found nothing
NoRow == Row(0, NoneStr, NoneStr, NoneStr, NoneStr, NoneStr)

\* the rows one record can be
MediaThumbRows ==
    {Row(1, fn, mt, ft, fp, pr) :
        fn \in {Some(<<"a", ".", "mp4">>), Some(<<"a", ".", "PNG">>)},
        mt \in {NoneStr, Some(<<"video">>)},
        ft \in {NoneStr, Some(<<"jpg">>)},
        fp \in Filepaths,
        pr \in {NoneStr, Some(<<"r", ".", "png">>)}}

\* the rows of a query that returns several
ListedRows ==
    {Row(i, Some(<<"a", ".", "mp4">>), mt, ft,
         Some(<<"a", ".", "png">>), NoneStr) :
        i \in 1..MaxListed,
        mt \in {NoneStr, Some(<<"video">>)},
        ft \in {NoneStr, Some(<<"jpg">>)}}

Listings == UNION {[1..n -> ListedRows] : n \in 0..MaxListed}

\* the row the handlers of Spec find
StoredRow == Row(1, Some(<<"a", ".", "png">>), Some(<<"image">>),
                 Some(<<"png">>), Some(<<"a", ".", "png">>), NoneStr)

MediaResponse(thumb, media_cat) ==
    [id_media |-> thumb.id_media,
     media_filename |-> thumb.media_filename,
     mediatype |-> thumb.mediatype,
     filetype |-> thumb.filetype,
     media_category |-> media_cat,
     filepath |-> thumb.filepath,
     path_resize |-> thumb.path_resize,
     thumbnail_url |-> get_media_url(thumb.filepath, TRUE, media_cat),
     full_url |-> get_media_url(Or(thumb.path_resize, thumb.filepath),
                                FALSE, media_cat)]

\* variant: the stored tag is handed to get_media_category
item_category_with_tag(thumb) ==
    get_media_category(thumb.media_filename, thumb.filetype, thumb.mediatype)

\* the category the endpoints compute for a row: the call passes the file
\* name and filetype only, mediatype keeps its default None
item_category(thumb) ==
    get_media_category(thumb.media_filename, thumb.filetype, NoneStr)

RECURSIVE for_entity_items(_, _)
for_entity_items(thumbs, category) ==
    IF thumbs = <<>> THEN <<>>
    ELSE LET thumb == Head(thumbs)
             media_cat == item_category(thumb)
             rest == for_entity_items(Tail(thumbs), category)
         IN  IF thumb = NoRow THEN rest
             ELSE IF category # "" /\ category # "all"
                     /\ media_cat # category
             THEN rest
             ELSE <<MediaResponse(thumb, media_cat)>> \o rest

\* get_media_for_entity; thumbs: what the MediaThumb query finds for each
\* association (NoRow: nothing); category "": no filter
GetMediaForEntity(thumbs, category) ==
    /\ resp' = [endpoint |-> "get_media_for_entity", status |-> 200,
                total |-> 0,
                items |-> for_entity_items(thumbs, category)]
    /\ UNCHANGED <<now, cache, cache_lock, cloudinary, req, last, run,
               db, prev>>

RECURSIVE filter_mediatype(_, _)
filter_mediatype(table, mediatype) ==
    IF table = <<>> THEN <<>>
    ELSE IF Head(table).mediatype = mediatype
    THEN <<Head(table)>> \o filter_mediatype(Tail(table), mediatype)
    ELSE filter_mediatype(Tail(table), mediatype)

\* query.offset(skip).limit(limit)
offset_limit(rows, skip, limit) ==
    SubSeq(rows, skip + 1,
           IF skip + limit < Len(rows) THEN skip + limit ELSE Len(rows))

\* list_media; table: the rows of media_thumb in the order the query
\* yields them
ListMedia(table, skip, limit, mediatype) ==
    LET query == IF Truthy(mediatype)
                 THEN filter_mediatype(table, mediatype) ELSE table
        items == offset_limit(query, skip, limit)
    IN  /\ resp' = [endpoint |-> "list_media", status |-> 200,
                    total |-> Len(query),
                    items |-> [i \in DOMAIN items |->
                        MediaResponse(items[i], item_category(items[i]))]]
        /\ UNCHANGED <<now, cache, cache_lock, cloudinary, req, last, run,
               db, prev>>

RECURSIVE search_items(_, _, _)
search_items(results, seen_ids, media_category) ==
    IF results = <<>> THEN <<>>
    ELSE LET thumb == Head(results)
             media_cat == item_category(thumb)
         IN  IF thumb.id_media \in seen_ids
             THEN search_items(Tail(results), seen_ids, media_category)
             ELSE IF media_category # "" /\ media_category # media_cat
             THEN search_items(Tail(results), seen_ids, media_category)
             ELSE <<[id_media |-> thumb.id_media,
                     media_filename |-> thumb.media_filename,
                     mediatype |-> thumb.mediatype,
                     filetype |-> thumb.filetype,
                     media_category |-> media_cat,
                     thumbnail_url |->
                         get_media_url(thumb.filepath, TRUE, media_cat),
                     full_url |->
                         get_media_url(Or(thumb.path_resize, thumb.filepath),
                                       FALSE, media_cat)]>>
                  \o search_items(Tail(results),
                                  seen_ids \cup {thumb.id_media},
                                  media_category)

\* search_media; results: the joined rows after offset and limit;
\* media_category "": no filter
SearchMedia(results, media_category) ==
    LET media_list == search_items(results, {}, media_category)
    IN  /\ resp' = [endpoint |-> "search_media", status |-> 200,
                    total |-> Len(media_list), items |-> media_list]
        /\ UNCHANGED <<now, cache, cache_lock, cloudinary, req, last, run,
               db, prev>>

\* variant: a record whose thumbnail is cached is given the URL of the
\* thumbnail endpoint
GetMediaInfo_cache_aware(thumb) ==
    /\ resp' = IF thumb = NoRow
               THEN [endpoint |-> "get_media_info", status |-> 404,
                     total |-> 0, items |-> <<>>]
               ELSE [endpoint |-> "get_media_info", status |-> 200,
                     total |-> 0,
                     items |-> <<[MediaResponse(thumb, item_category(thumb))
                        EXCEPT !.thumbnail_url =
                            IF has_key(cache["thumbnail_cache"],
                                       thumb_key(thumb.id_media))
                            THEN Some(<<"/", "api", "/", "media", "/",
                                        "thumbnail", "/", "1">>)
                            ELSE @]>>]
    /\ UNCHANGED <<now, cache, cache_lock, cloudinary, req, last, run,
               db, prev>>

\* get_media_info; thumb: what the MediaThumb query finds
GetMediaInfo(thumb) ==
    /\ resp' = IF thumb = NoRow
               THEN [endpoint |-> "get_media_info", status |-> 404,
                     total |-> 0, items |-> <<>>]
               ELSE [endpoint |-> "get_media_info", status |-> 200,
                     total |-> 0,
                     items |-> <<MediaResponse(thumb, item_category(thumb))>>]
    /\ UNCHANGED <<now, cache, cache_lock, cloudinary, req, last, run,
               db, prev>>

\* get_thumbnail / get_full_image up to the redirect or the call of
\* fetch_and_cache_image(url, ...): the 404, the 302 with its Location, or
\* (status 0) the URL the handler goes on to fetch from.  get_media_url is
\* called without media_cat, whose default is "image".
image_url(h, thumb) ==
    IF h = "get_thumbnail"
    THEN get_media_url(thumb.filepath, TRUE, "image")
    ELSE get_media_url(Or(thumb.path_resize, thumb.filepath), FALSE, "image")

GetImageUrl(h, thumb) ==
    /\ resp' = IF thumb = NoRow \/ ~Truthy(image_url(h, thumb))
               THEN [endpoint |-> h, status |-> 404, total |-> 0,
                     items |-> <<>>]
               ELSE [endpoint |-> h,
                     status |-> IF cloudinary THEN 302 ELSE 0,
                     total |-> 0,
                     items |-> <<[thumb |-> thumb,
                                  url |-> image_url(h, thumb)]>>]
    /\ UNCHANGED <<now, cache, cache_lock, cloudinary, req, last, run,
               db, prev>>

\* the helper functions called on their own
GetMediaCategory(filename, filetype, mediatype) ==
    /\ resp' = [endpoint |-> "get_media_category", status |-> 0, total |-> 0,
                items |-> <<[filename |-> filename, filetype |-> filetype,
                             mediatype |-> mediatype,
                             ret |-> get_media_category(filename, filetype,
                                                        mediatype)]>>]
    /\ UNCHANGED <<now, cache, cache_lock, cloudinary, req, last, run,
               db, prev>>

GetMediaUrl(filepath, is_thumbnail, media_cat) ==
    /\ resp' = [endpoint |-> "get_media_url", status |-> 0, total |-> 0,
                items |-> <<[filepath |-> filepath,
                             is_thumbnail |-> is_thumbnail,
                             media_cat |-> media_cat,
                             ret |-> get_media_url(filepath, is_thumbnail,
                                                   media_cat)]>>]
    /\ UNCHANGED <<now, cache, cache_lock, cloudinary, req, last, run,
               db, prev>>

MediaNext ==
    \/ \E thumbs \in Listings \cup {<<NoRow>>},
          category \in {"", "all", "video"} :
          GetMediaForEntity(thumbs, category)
    \/ \E table \in Listings, skip \in 0..1, limit \in 1..MaxListed,
          mediatype \in {NoneStr, Some(<<"video">>)} :
          ListMedia(table, skip, limit, mediatype)
    \/ \E results \in Listings, media_category \in {"", "video"} :
          SearchMedia(results, media_category)
    \/ \E thumb \in MediaThumbRows \cup {NoRow} : GetMediaInfo(thumb)
    \/ \E h \in {"get_thumbnail", "get_full_image"},
          thumb \in MediaThumbRows \cup {NoRow} : GetImageUrl(h, thumb)
    \/ \E filename \in Filenames, filetype \in Filetypes,
          mediatype \in Mediatypes :
          GetMediaCategory(filename, filetype, mediatype)
    \/ \E filepath \in Filepaths, is_thumbnail \in BOOLEAN,
          media_cat \in {"image", "video", "3d"} :
          GetMediaUrl(filepath, is_thumbnail, media_cat)

MediaSpec == Init /\ [][MediaNext]_vars

\* ------------------------------------------------------------ the exports
\* (backend/app/routers/export.py)  A table row is its primary key; the
\* rows a query returns are an input of the step.  A document is the kind
\* of file and the data rows written to it, in order.
NoDocument == [media_type |-> "none", rows |-> <<>>]

\* one row is written per element of data, after the header row
create_excel_workbook(data) == [media_type |-> "xlsx", rows |-> data]

create_pdf_document(data) == [media_type |-> "pdf", rows |-> data]

\* variant: the handler answers 200 with a document without data rows
table_export_empty_ok(endpoint, data, document) ==
    [endpoint |-> endpoint, status |-> 200, ids |-> <<>>, data |-> data,
     document |-> document]

\* `if not data: raise HTTPException(404)', else the StreamingResponse
table_export(endpoint, data, document) ==
    IF data = <<>>
    THEN [endpoint |-> endpoint, status |-> 404, ids |-> <<>>,
          data |-> data, document |-> NoDocument]
    ELSE [endpoint |-> endpoint, status |-> 200, ids |-> <<>>,
          data |-> data, document |-> document]

\* the results of a filtered, ordered query over a table of MaxRows rows
QueryResults ==
    {s \in UNION {[1..n -> 1..MaxRows] : n \in 0..MaxRows} :
        \A i, j \in DOMAIN s : i # j => s[i] # s[j]}

ExportUsExcel(data) ==
    /\ resp' = table_export("export_us_excel", data,
                            create_excel_workbook(data))
    /\ UNCHANGED <<now, cache, cache_lock, cloudinary, req, last, run,
               db, prev>>

ExportUsPdf(data) ==
    /\ resp' = table_export("export_us_pdf", data, create_pdf_document(data))
    /\ UNCHANGED <<now, cache, cache_lock, cloudinary, req, last, run,
               db, prev>>

ExportMaterialiExcel(data) ==
    /\ resp' = table_export("export_materiali_excel", data,
                            create_excel_workbook(data))
    /\ UNCHANGED <<now, cache, cache_lock, cloudinary, req, last, run,
               db, prev>>

ExportMaterialiPdf(data) ==
    /\ resp' = table_export("export_materiali_pdf", data,
                            create_pdf_document(data))
    /\ UNCHANGED <<now, cache, cache_lock, cloudinary, req, last, run,
               db, prev>>

ExportPotteryExcel(data) ==
    /\ resp' = table_export("export_pottery_excel", data,
                            create_excel_workbook(data))
    /\ UNCHANGED <<now, cache, cache_lock, cloudinary, req, last, run,
               db, prev>>

ExportPotteryPdf(data) ==
    /\ resp' = table_export("export_pottery_pdf", data,
                            create_pdf_document(data))
    /\ UNCHANGED <<now, cache, cache_lock, cloudinary, req, last, run,
               db, prev>>

\* ---- the ids parameter; a str is a sequence of characters here
\* s.split(sep)
RECURSIVE split(_, _)
split(s, sep) ==
    IF ~in_str(sep, s) THEN <<s>>
    ELSE LET i == CHOOSE i \in DOMAIN s :
                      s[i] = sep /\ \A j \in 1..(i - 1) : s[j] # sep
         IN  <<SubSeq(s, 1, i - 1)>> \o split(SubSeq(s, i + 1, Len(s)), sep)

DecimalDigits == {Digit(d) : d \in 0..9}

\* characters that str.isdigit() accepts and int() does not; "^2" is the
\* superscript two (U+00B2)
OtherDigits == {"^2"}

isdigit(s) ==
    s # <<>> /\ \A i \in DOMAIN s : s[i] \in DecimalDigits \cup OtherDigits

digit_value(ch) == CHOOSE d \in 0..9 : Digit(d) = ch

\* int(s) of a string of "0".."9"
RECURSIVE int(_)
int(s) == IF s = <<>> THEN 0
          ELSE 10 * int(SubSeq(s, 1, Len(s) - 1)) + digit_value(s[Len(s)])

\* int(s) raises ValueError
int_raises(s) == s = <<>> \/ \E i \in DOMAIN s : s[i] \notin DecimalDigits

\* the tokens that pass `if id.strip().isdigit()'
digit_tokens(ids) ==
    SelectSeq([i \in DOMAIN split(ids, ",") |-> strip(split(ids, ",")[i])],
              isdigit)

\* export_materials_search_excel / _pdf; table: the materials in the order
\* of numero_inventario
materials_search(endpoint, ids, table) ==
    LET tokens == digit_tokens(ids)
        document(data) ==
            IF endpoint = "export_materials_search_excel"
            THEN create_excel_workbook(data) ELSE create_pdf_document(data)
    IN  IF \E i \in DOMAIN tokens : int_raises(tokens[i])
        THEN \* ValueError leaves the handler: Internal Server Error
             [endpoint |-> endpoint, status |-> 500, ids |-> ids,
              data |-> <<>>, document |-> NoDocument]
        ELSE LET id_list == {int(tokens[i]) : i \in DOMAIN tokens}
                 data == SelectSeq(table, LAMBDA row : row \in id_list)
             IN  IF id_list = {}
                 THEN [endpoint |-> endpoint, status |-> 400, ids |-> ids,
                       data |-> <<>>, document |-> NoDocument]
                 ELSE [table_export(endpoint, data, document(data))
                          EXCEPT !.ids = ids]

\* values of the ids parameter
IdsValues ==
    {<<>>, <<",">>, <<"1">>, <<"2">>, <<"9">>, <<"1", ",", "2">>,
     <<" ", "1", " ", ",", "2">>, <<"1", ",", ",", "2">>, <<"1", "2">>,
     <<"x">>, <<"1", ",", "x">>, <<"x", ",", "y">>, <<"1", ".", "0">>,
     <<"-", "1">>, <<"^2">>, <<"1", ",", "^2">>}

ExportMaterialsSearchExcel(ids, table) ==
    /\ resp' = materials_search("export_materials_search_excel", ids, table)
    /\ UNCHANGED <<now, cache, cache_lock, cloudinary, req, last, run,
               db, prev>>

ExportMaterialsSearchPdf(ids, table) ==
    /\ resp' = materials_search("export_materials_search_pdf", ids, table)
    /\ UNCHANGED <<now, cache, cache_lock, cloudinary, req, last, run,
               db, prev>>

\* ---- the inventory: InventarioMateriali rows with the columns the
\* grouping reads; an Optional[int] is NoneInt or Some(n)
NoneInt == <<>>

TruthyInt(o) == o # NoneInt /\ o[1] # 0

\* `o or default'
or_str(o, default) == IF Truthy(o) THEN o[1] ELSE default

or_int(o, default) == IF TruthyInt(o) THEN o[1] ELSE default

\* the weight (peso, in grams) of the row with number i: the first row
\* has none, and no sum of the weights ends in 5
peso_of(i) == IF i % 3 = 1 THEN NoneInt
              ELSE IF i % 3 = 2 THEN Some(4) ELSE Some(1500)

Mat(i, luogo, cassa) ==
    [id_invmat |-> i, luogo_conservazione |-> luogo, nr_cassa |-> cassa,
     peso |-> peso_of(i)]

Luoghi == {NoneStr, Some(<<"A">>)}

Casse == {NoneInt, Some(0), Some(1), Some(2)}

\* what query.all() returns: up to MaxRows rows
MaterialListings ==
    UNION {{[i \in 1..n |-> Mat(i, f[i][1], f[i][2])] :
                f \in [1..n -> Luoghi \X Casse]} : n \in 0..MaxRows}

\* the same for the summary documents, with fewer box numbers
ExportListings ==
    {s \in MaterialListings :
        \A i \in DOMAIN s : s[i].nr_cassa \in {NoneInt, Some(1)}}

\* the order of the strings that name a storage location
str_rank(s) ==
    CASE s = <<>> -> 0
      [] s = <<"A">> -> 1
      [] s = <<"B">> -> 2
      [] s = <<"Non specificato">> -> 3
      [] s = <<"Not specified">> -> 4

\* sorted(...): stable, ascending; s holds the elements with their keys,
\* [key |-> the sort key, value |-> the element]
sorted(s) ==
    LET pos(i) == 1 + Cardinality({j \in DOMAIN s :
                        \/ s[j].key < s[i].key
                        \/ s[j].key = s[i].key /\ j < i})
    IN  [p \in DOMAIN s |-> s[CHOOSE i \in DOMAIN s : pos(i) = p].value]

\* the keys of a dict, in the order of their first insertion
RECURSIVE dict_keys(_)
dict_keys(s) ==
    IF s = <<>> THEN <<>>
    ELSE <<Head(s)>>
         \o dict_keys(SelectSeq(Tail(s), LAMBDA x : x # Head(s)))

RECURSIVE sum(_)
sum(s) == IF s = <<>> THEN 0 ELSE Head(s) + sum(Tail(s))

\* variant: a record without a box number is left out of the grouping
storage_data_boxed_only(all_materials, no_storage, no_box) ==
    LET boxed == SelectSeq(all_materials, LAMBDA m : TruthyInt(m.nr_cassa))
        storage(m) == or_str(m.luogo_conservazione, no_storage)
        box(m) == or_int(m.nr_cassa, no_box)
        names == dict_keys([i \in DOMAIN boxed |-> storage(boxed[i])])
    IN  [n \in DOMAIN names |->
            LET here == SelectSeq(boxed, LAMBDA m : storage(m) = names[n])
                numbers == dict_keys([i \in DOMAIN here |-> box(here[i])])
            IN  [storage |-> names[n],
                 boxes |-> [b \in DOMAIN numbers |->
                    [box |-> numbers[b],
                     items |-> SelectSeq(here,
                                  LAMBDA m : box(m) = numbers[b])]]]]

\* storage_data[storage][box].append(mat) for every mat: the storage
\* locations and, in each, the boxes, both in the order of insertion
storage_data(all_materials, no_storage, no_box) ==
    LET storage(m) == or_str(m.luogo_conservazione, no_storage)
        box(m) == or_int(m.nr_cassa, no_box)
        names == dict_keys([i \in DOMAIN all_materials |->
                               storage(all_materials[i])])
    IN  [n \in DOMAIN names |->
            LET here == SelectSeq(all_materials,
                                  LAMBDA m : storage(m) = names[n])
                numbers == dict_keys([i \in DOMAIN here |-> box(here[i])])
            IN  [storage |-> names[n],
                 boxes |-> [b \in DOMAIN numbers |->
                    [box |-> numbers[b],
                     items |-> SelectSeq(here,
                                  LAMBDA m : box(m) = numbers[b])]]]]

\* the (key, value) items of storage_data and of one of its box dicts
storage_items(groups) ==
    [g \in DOMAIN groups |->
        [key |-> str_rank(groups[g].storage), value |-> groups[g]]]

box_items(boxes) ==
    [b \in DOMAIN boxes |-> [key |-> boxes[b].box, value |-> boxes[b]]]

\* the key of the detail sheet: (luogo_conservazione or "", nr_cassa or 0,
\* numero_inventario or 0); the inventory number is the row's number
detail_key(m) ==
    100 * str_rank(or_str(m.luogo_conservazione, <<>>))
    + 10 * or_int(m.nr_cassa, 0) + m.id_invmat

\* len(set((m.luogo_conservazione, m.nr_cassa) for m in ... if m.nr_cassa))
count_boxes(all_materials) ==
    Cardinality({<<all_materials[i].luogo_conservazione,
                   all_materials[i].nr_cassa>> :
                    i \in {j \in DOMAIN all_materials :
                              TruthyInt(all_materials[j].nr_cassa)}})

\* sum(m.peso or 0 for m in materials)
weight(materials) ==
    sum([i \in DOMAIN materials |-> or_int(materials[i].peso, 0)])

\* f"{total_weight/1000:.2f} kg": the hundredths of a kilogram shown
kg_2f(grams) == (grams + 5) \div 10

\* the storage breakdown of both summary documents
breakdown(all_materials) ==
    LET groups == sorted(storage_items(
                      storage_data(all_materials, <<"Not specified">>, 0)))
    IN  [g \in DOMAIN groups |->
            [storage |-> groups[g].storage,
             boxes |-> LET boxes == sorted(box_items(groups[g].boxes))
                       IN  [b \in DOMAIN boxes |->
                               [box |-> boxes[b].box,
                                items |-> Len(boxes[b].items),
                                weight |-> weight(boxes[b].items)]]]]

ids_of(rows) == [i \in DOMAIN rows |-> rows[i].id_invmat]

summary_workbook(all_materials) ==
    [media_type |-> "xlsx",
     total_items |-> Len(all_materials),
     total_boxes |-> count_boxes(all_materials),
     total_weight |-> weight(all_materials),
     total_weight_kg |-> kg_2f(weight(all_materials)),
     storages |-> breakdown(all_materials),
     rows |-> ids_of(sorted([i \in DOMAIN all_materials |->
                  [key |-> detail_key(all_materials[i]),
                   value |-> all_materials[i]]]))]

summary_pdf(all_materials) ==
    [media_type |-> "pdf",
     total_items |-> Len(all_materials),
     total_boxes |-> count_boxes(all_materials),
     total_weight |-> weight(all_materials),
     total_weight_kg |-> kg_2f(weight(all_materials)),
     storages |-> breakdown(all_materials),
     rows |-> <<>>]

ExportInventorySummaryExcel(all_materials) ==
    /\ resp' = table_export("export_inventory_summary_excel", all_materials,
                            summary_workbook(all_materials))
    /\ UNCHANGED <<now, cache, cache_lock, cloudinary, req, last, run,
               db, prev>>

ExportInventorySummaryPdf(all_materials) ==
    /\ resp' = table_export("export_inventory_summary_pdf", all_materials,
                            summary_pdf(all_materials))
    /\ UNCHANGED <<now, cache, cache_lock, cloudinary, req, last, run,
               db, prev>>

ExportNext ==
    \/ \E data \in QueryResults : ExportUsExcel(data)
    \/ \E data \in QueryResults : ExportUsPdf(data)
    \/ \E data \in QueryResults : ExportMaterialiExcel(data)
    \/ \E data \in QueryResults : ExportMaterialiPdf(data)
    \/ \E ids \in IdsValues, table \in QueryResults :
          ExportMaterialsSearchExcel(ids, table)
    \/ \E ids \in IdsValues, table \in QueryResults :
          ExportMaterialsSearchPdf(ids, table)
    \/ \E data \in QueryResults : ExportPotteryExcel(data)
    \/ \E data \in QueryResults : ExportPotteryPdf(data)
    \/ \E all_materials \in ExportListings :
          ExportInventorySummaryExcel(all_materials)
    \/ \E all_materials \in ExportListings :
          ExportInventorySummaryPdf(all_materials)

ExportSpec == Init /\ [][ExportNext]_vars

\* ------------------------------------------------- the materials summary
\* (backend/app/routers/materiali.py)  The box key "Non specificata" is
\* written 0: a box number that is a key is never 0, and the response
\* turns the key into 0.
box_summaries(group) ==
    [b \in DOMAIN group.boxes |->
        [nr_cassa |-> group.boxes[b].box,
         luogo_conservazione |-> group.storage,
         total_items |-> Len(group.boxes[b].items)]]

\* key=lambda x: x.nr_cassa if isinstance(x.nr_cassa, int) else 0
box_summary_key(x) == x.nr_cassa

\* key=lambda x: x.luogo_conservazione
storage_summary_key(x) == str_rank(x.luogo_conservazione)

materials_summary(all_materials) ==
    LET groups == storage_data(all_materials, <<"Non specificato">>, 0)
        storage_locations ==
            [g \in DOMAIN groups |->
                LET boxes == box_summaries(groups[g])
                IN  [luogo_conservazione |-> groups[g].storage,
                     total_boxes |-> Len(boxes),
                     total_items |->
                         sum([b \in DOMAIN boxes |-> boxes[b].total_items]),
                     boxes |-> sorted([b \in DOMAIN boxes |->
                         [key |-> box_summary_key(boxes[b]),
                          value |-> boxes[b]]])]]
    IN  [endpoint |-> "get_materials_summary", status |-> 200,
         data |-> all_materials,
         total_materials |-> Len(all_materials),
         total_boxes |->
             sum([g \in DOMAIN groups |-> Len(groups[g].boxes)]),
         storage_locations |-> sorted([g \in DOMAIN storage_locations |->
             [key |-> storage_summary_key(storage_locations[g]),
              value |-> storage_locations[g]]])]

GetMaterialsSummary(all_materials) ==
    /\ resp' = materials_summary(all_materials)
    /\ UNCHANGED <<now, cache, cache_lock, cloudinary, req, last, run,
               db, prev>>

MaterialiNext ==
    \E all_materials \in MaterialListings : GetMaterialsSummary(all_materials)

MaterialiSpec == Init /\ [][MaterialiNext]_vars

\* ------------------------------------------------ the paginated endpoints
\* The four handlers have no await: each runs in one step.  They read the
\* tables and never write them.  A row stands for a Site, a US, an
\* InventarioMateriali or a Pottery record: id is its primary key, nr its
\* us, numero_inventario or id_number.  Rows differ in their sort keys.
PageRows ==
    {[id |-> 1, sito |-> <<"A">>, area |-> 2, nr |-> 1],
     [id |-> 2, sito |-> <<"A">>, area |-> 1, nr |-> 2],
     [id |-> 3, sito |-> <<"B">>, area |-> 1, nr |-> 1]}

StoredTables == {t \in SUBSET PageRows : Cardinality(t) <= MaxRows}

Pages == 1..MaxPage
PageSizes == 1..MaxPageSize
SitoFilters == {NoneStr, Some(<<"A">>)}
SearchFilters == {NoneStr, Some(<<"B">>)}

PageInit ==
    /\ now = 0
    /\ cache = [c \in Caches |-> <<>>]
    /\ cache_lock = NoHolder
    /\ cloudinary \in BOOLEAN
    /\ req = [r \in Requests |-> IdleReq]
    /\ last = NoCall
    /\ run = NoRun
    /\ resp = NoResp
    /\ db \in StoredTables
    /\ prev = NoResp

\* column.ilike(f"%{search}%")
ilike(value, search) ==
    \E i \in 0..Len(value) :
        /\ i + Len(search) <= Len(value)
        /\ lower(SubSeq(value, i + 1, i + Len(search))) = lower(search)

\* query.filter(Site.sito.ilike(...)) under `if search:'
filter_search(rows, search) ==
    IF Truthy(search) THEN {row \in rows : ilike(row.sito, search[1])}
    ELSE rows

\* query.filter(X.sito == sito) under `if sito:'
filter_sito(rows, sito) ==
    IF Truthy(sito) THEN {row \in rows : row.sito = sito[1]}
    ELSE rows

\* the orders in which a query without ORDER BY can yield its rows
Scans(rows) ==
    {scan \in [1..Cardinality(rows) -> rows] :
        \A i, j \in 1..Cardinality(rows) : i # j => scan[i] # scan[j]}

\* order_by(US.sito, US.area, US.us)
us_key(row) == str_rank(row.sito) * 100 + row.area * 10 + row.nr

\* order_by(X.sito, X.numero_inventario) and order_by(X.sito, X.id_number)
nr_key(row) == str_rank(row.sito) * 100 + row.nr

order_by_us(scan) ==
    sorted([i \in DOMAIN scan |-> [key |-> us_key(scan[i]),
                                   value |-> scan[i]]])

order_by_nr(scan) ==
    sorted([i \in DOMAIN scan |-> [key |-> nr_key(scan[i]),
                                   value |-> scan[i]]])

\* add_geometry_info: one dict per row, in the order of the rows
add_geometry_info(us_list, us_ids_with_geom) ==
    [i \in DOMAIN us_list |->
        [id |-> us_list[i].id, sito |-> us_list[i].sito,
         area |-> us_list[i].area, nr |-> us_list[i].nr,
         has_geometry |-> us_list[i].id \in us_ids_with_geom]]

\* (total + page_size - 1) // page_size
total_pages_of(total, page_size) == (total + page_size - 1) \div page_size

\* the body shared by the four handlers from `total = query.count()' on;
\* ordered: the rows of the query in the order in which .all() yields them
paginated(endpoint, filter, ordered, page, page_size) ==
    LET total == Len(ordered)
        total_pages == total_pages_of(total, page_size)
        items == offset_limit(ordered, (page - 1) * page_size, page_size)
    IN  [endpoint |-> endpoint, status |-> 200, filter |-> filter,
         items |-> items, total |-> total, page |-> page,
         page_size |-> page_size, total_pages |-> total_pages]

same_listing(a, b) ==
    /\ a.endpoint = b.endpoint
    /\ a.filter = b.filter
    /\ a.page_size = b.page_size

Serve(response) ==
    /\ prev' = IF same_listing(resp, response) THEN resp ELSE NoResp
    /\ resp' = response
    /\ UNCHANGED <<now, cache, cache_lock, cloudinary, req, last, run, db>>

\* get_sites_paginated: the query has no order_by; scan is the order in
\* which the database yields the rows this time
GetSitesPaginated(page, page_size, search, scan) ==
    /\ scan \in Scans(filter_search(db, search))
    /\ Serve(paginated("get_sites_paginated", search, scan, page, page_size))

GetUsPaginated(page, page_size, sito, scan, us_ids_with_geom) ==
    /\ scan \in Scans(filter_sito(db, sito))
    /\ LET p == paginated("get_us_paginated", sito, order_by_us(scan),
                          page, page_size)
       IN  Serve([p EXCEPT !.items =
                     add_geometry_info(p.items, us_ids_with_geom)])

GetMaterialiPaginated(page, page_size, sito, scan) ==
    /\ scan \in Scans(filter_sito(db, sito))
    /\ Serve(paginated("get_materiali_paginated", sito, order_by_nr(scan),
                       page, page_size))

GetPotteryPaginated(page, page_size, sito, scan) ==
    /\ scan \in Scans(filter_sito(db, sito))
    /\ Serve(paginated("get_pottery_paginated", sito, order_by_nr(scan),
                       page, page_size))

PageNext ==
    \/ \E page \in Pages, page_size \in PageSizes, search \in SearchFilters :
          \E scan \in Scans(filter_search(db, search)) :
              GetSitesPaginated(page, page_size, search, scan)
    \/ \E page \in Pages, page_size \in PageSizes, sito \in SitoFilters,
          g \in {{}, {row.id : row \in db}} :
          \E scan \in Scans(filter_sito(db, sito)) :
              GetUsPaginated(page, page_size, sito, scan, g)
    \/ \E page \in Pages, page_size \in PageSizes, sito \in SitoFilters :
          \E scan \in Scans(filter_sito(db, sito)) :
              GetMaterialiPaginated(page, page_size, sito, scan)
    \/ \E page \in Pages, page_size \in PageSizes, sito \in SitoFilters :
          \E scan \in Scans(filter_sito(db, sito)) :
              GetPotteryPaginated(page, page_size, sito, scan)

PageSpec == PageInit /\ [][PageNext]_vars

Next ==
    \/ Tick
    \/ \E r \in Requests, h \in {"get_thumbnail", "get_full_image"},
          i \in MediaIds, d \in {"found", "no_record", "no_path"} :
          StartImage(r, h, i, d)
    \/ \E r \in Requests, f \in {"thumbnail", "original", "other"} :
          StartProxy(r, f)
    \/ \E r \in Requests : Acquire(r)
    \/ \E r \in Requests : Lookup(r)
    \/ \E r \in Requests, p \in Payloads : FetchOk(r, p)
    \/ \E r \in Requests, s \in RemoteErrors : FetchStatus(r, s)
    \/ \E r \in Requests : FetchError(r)
    \/ \E r \in Requests : Store(r)
    \/ \E r \in Requests : Respond(r)
    \/ \E r \in Requests : CacheStats(r)
    \/ \E r \in Requests : StartClear(r)
    \/ \E r \in Requests : ClearCache(r)
    \/ \E r \in Requests : Finish(r)
    \/ GetMediaInfo(StoredRow)

Spec == Init /\ [][Next]_vars

\* client.get comes back: with a payload, with another status, or with
\* httpx.RequestError (the call has timeout=60.0)
FetchReturns(r) ==
    \/ \E p \in Payloads : FetchOk(r, p)
    \/ \E s \in RemoteErrors : FetchStatus(r, s)
    \/ FetchError(r)

\* The event loop runs every coroutine that is ready, so a step that stays
\* enabled is taken; asyncio.Lock wakes its waiters in the order in which
\* they arrived, so a waiter is not passed over for ever.
Fairness ==
    \A r \in Requests :
        /\ SF_vars(Acquire(r))
        /\ WF_vars(Lookup(r))
        /\ WF_vars(FetchReturns(r))
        /\ WF_vars(Store(r))
        /\ WF_vars(Respond(r))
        /\ WF_vars(ClearCache(r))

\* The handlers of the cached endpoints within one clock reading: whether
\* a lookup hits or misses is then decided by what was stored and cleared.
FairNext ==
    \/ \E r \in Requests, h \in {"get_thumbnail", "get_full_image"},
          i \in MediaIds, d \in {"found", "no_record", "no_path"} :
          StartImage(r, h, i, d)
    \/ \E r \in Requests, f \in {"thumbnail", "original", "other"} :
          StartProxy(r, f)
    \/ \E r \in Requests : Acquire(r)
    \/ \E r \in Requests : Lookup(r)
    \/ \E r \in Requests, p \in Payloads : FetchOk(r, p)
    \/ \E r \in Requests, s \in RemoteErrors : FetchStatus(r, s)
    \/ \E r \in Requests : FetchError(r)
    \/ \E r \in Requests : Store(r)
    \/ \E r \in Requests : Respond(r)
    \/ \E r \in Requests : CacheStats(r)
    \/ \E r \in Requests : StartClear(r)
    \/ \E r \in Requests : ClearCache(r)
    \/ \E r \in Requests : Finish(r)

FairSpec == Init /\ [][FairNext]_vars /\ Fairness

\* ------------------------------------------------ steps of the class calls
\* A step that leaves the clock alone and ends with `last' an op call is a
\* call of op (Tick is the only step that does not set `last').
CallStep(op) == now' = now /\ last'.op = op

KeySet(m) == {m[i].k : i \in 1..Len(m)}

Live(c, m, t) == {k \in Keys(c) : get(c, m, k, t).ret # None}

LastKeys(s, n) == {s[i] : i \in (Len(s) - n + 1)..Len(s)}

\* C1: a set(k, v) followed by get(k), with no other call on the cache in
\* between and less than ttl elapsed, returns exactly v.
C1_SetThenGet ==
    [][(/\ last.op = "set"
        /\ CallStep("get")
        /\ last'.follows
        /\ now' - last.time < ttl(last.cache))
       => last'.ret = last.value]_vars

C1_Witness ==
    /\ last.op = "get"
    /\ last.follows
    /\ last.ret \in Payloads
    /\ \E i \in 1..Len(cache[last.cache]) :
          /\ cache[last.cache][i].k = last.key
          /\ cache[last.cache][i].ts < last.time

\* C2: get(k) returns the stored value iff k is present and its age is at
\* most ttl (an entry aged exactly ttl is returned); if k is present with
\* an age beyond ttl, get(k) returns None and removes the entry.
C2_GetExpiry ==
    [][CallStep("get") =>
        LET c == last'.cache
            k == last'.key
            m == cache[c]
        IN  /\ (has_key(m, k) /\ now - m[index_of(m, k)].ts <= ttl(c))
                  => (last'.ret = m[index_of(m, k)].v /\ last'.ret # None)
            /\ last'.ret # None
                  => (has_key(m, k) /\ now - m[index_of(m, k)].ts <= ttl(c))
            /\ (has_key(m, k) /\ now - m[index_of(m, k)].ts > ttl(c))
                  => (last'.ret = None /\ ~has_key(cache'[c], k))]_vars

\* the entry was set, ttl went by and one more unit, and get removed it
C2_Witness ==
    /\ last.op = "get"
    /\ last.follows
    /\ last.ret = None
    /\ last.before = Len(cache[last.cache]) + 1
    /\ ~has_key(cache[last.cache], last.key)

\* get at the boundary: an entry aged exactly ttl is returned
C2_BoundaryWitness ==
    /\ last.op = "get"
    /\ last.ret \in Payloads
    /\ \E i \in 1..Len(cache[last.cache]) :
          /\ cache[last.cache][i].k = last.key
          /\ cache[last.cache][i].ts + ttl(last.cache) = last.time

\* C3 (as claimed): after sets of n > maxsize distinct keys on an empty
\* cache, with no expiry, exactly maxsize keys are present and they are the
\* maxsize most recently inserted ones.
C3_ExactlyMaxsizeAfterSets ==
    (/\ run.cache # "none"
     /\ Len(run.keys) > maxsize(run.cache)
     /\ now - run.t0 <= ttl(run.cache))
    => /\ Cardinality(Live(run.cache, cache[run.cache], now))
             = maxsize(run.cache)
       /\ Live(run.cache, cache[run.cache], now)
             = LastKeys(run.keys, maxsize(run.cache))

\* C4: after clear(), len() is 0 and get(k) returns None for every key
\* that was present before, whatever the ages and the size were.
C4_ClearEmpties ==
    [][CallStep("clear") =>
        LET c == last'.cache
        IN  /\ len(c, cache'[c], now').ret = 0
            /\ \A k \in KeySet(cache[c]) :
                  get(c, cache'[c], k, now').ret = None]_vars

\* clear on a dict that held more than maxsize entries
C4_Witness ==
    /\ last.op = "clear"
    /\ last.before > maxsize(last.cache)
    /\ cache[last.cache] = <<>>

\* C5: a get of a live entry leaves the mapping (timestamps included)
\* unchanged, and an entry dropped for capacity by set or len is never
\* younger than an entry that stays.
C5_OldestFirstNoRefresh ==
    [][/\ (CallStep("get") /\ last'.ret # None) => cache' = cache
       /\ (CallStep("set") \/ CallStep("len")) =>
            LET c == last'.cache
                m == cache[c]
                live == {i \in 1..Len(m) : now - m[i].ts <= ttl(c)}
                dropped == {i \in live : ~has_key(cache'[c], m[i].k)}
                kept == {i \in live : has_key(cache'[c], m[i].k)
                                       /\ m[i].k # last'.key}
            IN  \A i \in dropped, j \in kept : m[i].ts <= m[j].ts]_vars

\* a set on a full dict with nothing expired: the oldest entry went
C5_Witness ==
    /\ last.op = "set"
    /\ last.before > maxsize(last.cache)
    /\ last.time <= ttl(last.cache)
    /\ Len(cache[last.cache]) = maxsize(last.cache) + 1

\* C6: right after set(k, v) at time t, k maps to (v, t), no entry older
\* than ttl is in the mapping, the entries beside k are the live ones cut
\* down to at most maxsize, and overwriting a key that was present does not
\* increase the number of entries.
C6_SetPostcondition ==
    [][CallStep("set") =>
        LET c == last'.cache
            k == last'.key
            m == cache[c]
            m2 == cache'[c]
            livekeys == {m[i].k : i \in {j \in 1..Len(m) :
                                           now - m[j].ts <= ttl(c)}}
        IN  /\ has_key(m2, k)
            /\ m2[index_of(m2, k)].v = last'.value
            /\ m2[index_of(m2, k)].ts = now
            /\ \A i \in 1..Len(m2) : now - m2[i].ts <= ttl(c)
            /\ KeySet(m2) \subseteq livekeys \cup {k}
            /\ Cardinality(livekeys) <= maxsize(c)
                  => KeySet(m2) = livekeys \cup {k}
            /\ Cardinality(livekeys) > maxsize(c)
                  => Cardinality(KeySet(m2) \cup {k}) \in
                        {maxsize(c), maxsize(c) + 1}
            /\ has_key(m, k) => Len(m2) <= Len(m)]_vars

\* a set that overwrote a key on a dict holding maxsize + 1 live entries
C6_Witness ==
    /\ last.op = "set"
    /\ last.before = maxsize(last.cache) + 1
    /\ last.time <= ttl(last.cache)
    /\ Len(cache[last.cache]) = maxsize(last.cache)

\* C7: in every reachable state len() returns the number of keys for which
\* a get right after it returns a value, counts no entry older than ttl and
\* never returns more than maxsize.
C7_LenIsLive ==
    /\ \A c \in Caches :
          LET r == len(c, cache[c], now)
          IN  /\ r.ret = Cardinality(Live(c, r.map, now))
              /\ \A i \in 1..Len(r.map) : now - r.map[i].ts <= ttl(c)
              /\ r.ret <= maxsize(c)
    /\ last.op = "len" => last.ret <= maxsize(last.cache)

\* len on a dict with more than maxsize entries, some of them expired
C7_Witness ==
    /\ last.op = "len"
    /\ last.before > maxsize(last.cache)
    /\ last.ret < maxsize(last.cache)
    /\ last.ret > 0

\* ------------------------------------------------ steps of the handlers
\* In a step of Spec only the record of the request that takes it changes.
Acts(r) == req'[r] # req[r]

SameKey(q, r) == /\ Proxied(q)
                 /\ Proxied(r)
                 /\ req[q].handler = req[r].handler
                 /\ req[q].media_id = req[r].media_id

\* C8 (as claimed): every step that changes a cache mapping is taken by a
\* request that holds cache_lock.
C8_MutationOnlyUnderLock ==
    [][\A r \in Requests : (Acts(r) /\ cache' # cache) => cache_lock = r]_vars

\* C9: a request that misses while another request for the same key has
\* missed and not yet written issues its own fetch, and a request that
\* writes leaves its own payload in the cache (the second write wins).
C9_NoSingleFlight ==
    /\ [](\A r \in Requests : req[r].pc = "fetching" => req[r].fetches = 1)
    /\ [][\A r \in Requests :
            LET c == cache_of(req[r].handler)
                k == cache_key(req[r].handler, req[r].media_id)
            IN  /\ (/\ req[r].pc = "lookup"
                    /\ Acts(r)
                    /\ get(c, cache[c], k, now).ret = None
                    /\ \E q \in Requests \ {r} :
                          /\ SameKey(q, r)
                          /\ req[q].pc \in {"fetching", "store_wait", "store"})
                   => (req'[r].pc = "fetching" /\ req'[r].fetches = 1)
                /\ (req[r].pc = "store" /\ Acts(r))
                   => /\ has_key(cache'[c], k)
                      /\ cache'[c][index_of(cache'[c], k)].v = req[r].image_data
                      /\ cache'[c][index_of(cache'[c], k)].ts = now]_vars

\* two fetches for one key outstanding at once
C9_Witness ==
    \E q, r \in Requests :
        /\ q # r
        /\ SameKey(q, r)
        /\ req[q].pc = "fetching"
        /\ req[r].pc = "fetching"

\* both requests fetched and wrote; the entry is the payload of the second
C9_SecondWriteWitness ==
    \E q, r \in Requests :
        /\ q # r
        /\ SameKey(q, r)
        /\ req[q].pc \in {"respond", "done"} /\ req[q].fetches = 1
        /\ req[r].pc = "respond" /\ req[r].fetches = 1
        /\ req[q].image_data \in Payloads
        /\ req[r].image_data \in Payloads
        /\ req[q].image_data # req[r].image_data
        /\ LET c == cache_of(req[r].handler)
               k == cache_key(req[r].handler, req[r].media_id)
           IN  /\ has_key(cache[c], k)
               /\ cache[c][index_of(cache[c], k)].v = req[r].image_data

\* C10: a request whose fetch is outstanding does not hold cache_lock; a
\* proxying request holds it only for the lookup and for the insert, and
\* whoever holds it can finish its critical section at once.
C10_LockNotHeldDuringFetch ==
    /\ \A r \in Requests : req[r].pc = "fetching" => cache_lock # r
    /\ \A r \in Requests :
          (cache_lock = r /\ Proxied(r)) => req[r].pc \in {"lookup", "store"}
    /\ cache_lock # NoHolder =>
          ENABLED (\/ Lookup(cache_lock)
                   \/ Store(cache_lock)
                   \/ ClearCache(cache_lock))

\* another request holds the lock while a fetch is outstanding
C10_Witness ==
    \E q, r \in Requests :
        /\ req[r].pc = "fetching"
        /\ cache_lock = q
        /\ q # r

\* C11 (as claimed): each cache has its own lock, so a request working on
\* one cache never waits for a lock held by a request working on the other.
C11_OwnLockPerCache ==
    \A q, r \in Requests :
        ~(/\ Proxied(q)
          /\ Proxied(r)
          /\ cache_of(req[q].handler) # cache_of(req[r].handler)
          /\ cache_lock = q
          /\ req[r].pc \in {"lookup_wait", "store_wait"})

Fetching == {"get_thumbnail", "get_full_image", "public_image_proxy"}

\* C12: a proxied fetch answered with a status other than 200 ends in an
\* error response with that status code, and a fetch that fails with
\* httpx.RequestError ends in a response with status 500, in the public
\* proxy and in the thumbnail and full-image endpoints.
C12_UpstreamStatusPropagated ==
    \A r \in Requests :
        (req[r].handler \in Fetching /\ req[r].pc = "done") =>
            /\ (req[r].remote \notin {0, 200}) => req[r].status = req[r].remote
            /\ req[r].request_error => req[r].status = 500

\* the storage server answered 404 to the public proxy and 503 to a
\* thumbnail or full-image request
C12_Witness ==
    \E q, r \in Requests :
        /\ req[q].handler = "public_image_proxy"
        /\ req[q].pc = "done" /\ req[q].remote = 404 /\ req[q].status = 404
        /\ Proxied(r)
        /\ req[r].pc = "done" /\ req[r].remote = 503 /\ req[r].status = 503

\* C13 (as claimed): every upstream failure, a non-success status as well
\* as an unreachable store, is answered with status 500.
C13_UpstreamFailureIs500 ==
    \A r \in Requests :
        (/\ req[r].handler \in Fetching
         /\ req[r].pc = "done"
         /\ (req[r].request_error \/ req[r].remote \notin {0, 200}))
        => req[r].status = 500

\* C13 (amended): every upstream failure is answered with an error and no
\* payload; the status is 500 when the store was unreachable and the
\* store's own status code when it answered with a non-success status.
C13_UpstreamFailureIsError ==
    \A r \in Requests :
        (/\ req[r].handler \in Fetching
         /\ req[r].pc = "done"
         /\ (req[r].request_error \/ req[r].remote \notin {0, 200}))
        => /\ req[r].status # 200
           /\ req[r].image_data = None
           /\ req[r].x_cache = "none"
           /\ req[r].status = IF req[r].request_error THEN 500
                              ELSE req[r].remote

\* one request found the store unreachable, another got a 404 from it
C13_Witness ==
    \E q, r \in Requests :
        /\ req[q].pc = "done" /\ req[q].request_error /\ req[q].status = 500
        /\ req[r].pc = "done" /\ req[r].remote = 404 /\ req[r].status = 404

\* ------------------------------------------------ claims on media metadata
MetadataEndpoints ==
    {"get_media_for_entity", "list_media", "search_media", "get_media_info"}

ends_with(s, suffix) ==
    /\ Len(s) >= Len(suffix)
    /\ SubSeq(s, Len(s) - Len(suffix) + 1, Len(s)) = suffix

starts_with(s, prefix) ==
    /\ Len(s) >= Len(prefix)
    /\ SubSeq(s, 1, Len(prefix)) = prefix

\* urllib.parse.unquote on the escapes of the delimiters
unquote_atom(a) ==
    CASE a = "%2F" -> "/"
      [] a = "%3A" -> ":"
      [] a = "%20" -> " "
      [] OTHER -> a

unquote(s) == [i \in DOMAIN s |-> unquote_atom(s[i])]

CdnHost == <<"https", ":", "/", "/", "res", ".", "cloudinary", ".", "com",
             "/">>

\* C14: every record returned by the for-entity, list, search and info
\* endpoints carries the media_category that its stored tag (mediatype)
\* gives when the tag is recognized, and otherwise the one its extension
\* gives, 'image' when nothing is recognized; a record tagged video is
\* reported as video whatever its extension.
C14_TagDecidesCategory ==
    resp.endpoint \in MetadataEndpoints =>
        \A i \in DOMAIN resp.items :
            resp.items[i].media_category =
                get_media_category(resp.items[i].media_filename,
                                   resp.items[i].filetype,
                                   resp.items[i].mediatype)

\* C15 as stated: get_media_category returns one of the three categories,
\* and with no category tag a file name ending in .mp4 gives video, in
\* .glb 3d, in .png image and in an unrecognized extension image, whatever
\* filetype holds.
C15_FilenameDecidesWhateverFiletype ==
    resp.endpoint = "get_media_category" =>
        LET a == resp.items[1]
        IN  /\ a.ret \in {"image", "video", "3d"}
            /\ (~Truthy(a.mediatype) /\ Truthy(a.filename)) =>
                  /\ ends_with(a.filename[1], <<".", "mp4">>)
                        => a.ret = "video"
                  /\ ends_with(a.filename[1], <<".", "glb">>) => a.ret = "3d"
                  /\ ends_with(a.filename[1], <<".", "png">>)
                        => a.ret = "image"
                  /\ ends_with(a.filename[1], <<".", "xyz">>)
                        => a.ret = "image"

\* C15 amended: get_media_category returns one of the three categories;
\* with no category tag and no filetype value, a file name ending in .mp4
\* gives video, in .glb 3d, in .png image, and an unrecognized extension
\* or no extension gives image; with no category tag and a filetype value,
\* the filetype (lower-cased, leading dots removed) decides instead of the
\* file name.
C15_FilenameDecidesWithoutFiletype ==
    resp.endpoint = "get_media_category" =>
        LET a == resp.items[1]
        IN  /\ a.ret \in {"image", "video", "3d"}
            /\ (~Truthy(a.mediatype) /\ ~Truthy(a.filetype)
                /\ Truthy(a.filename)) =>
                  /\ ends_with(a.filename[1], <<".", "mp4">>)
                        => a.ret = "video"
                  /\ ends_with(a.filename[1], <<".", "glb">>) => a.ret = "3d"
                  /\ ends_with(a.filename[1], <<".", "png">>)
                        => a.ret = "image"
                  /\ ends_with(a.filename[1], <<".", "xyz">>)
                        => a.ret = "image"
                  /\ ~in_str(".", a.filename[1]) => a.ret = "image"
            /\ (~Truthy(a.mediatype) /\ Truthy(a.filetype)) =>
                  /\ a.filetype[1] = <<".", "MP4">> => a.ret = "video"
                  /\ a.filetype[1] \in {<<"jpg">>, <<"xyz">>, <<".">>}
                        => a.ret = "image"

C15_Witness ==
    /\ resp.endpoint = "get_media_category"
    /\ resp.items[1].mediatype = NoneStr
    /\ resp.items[1].filetype = Some(<<>>)
    /\ resp.items[1].filename = Some(<<"a", ".", "tar", ".", "mp4">>)
    /\ resp.items[1].ret = "video"

\* C16: for a non-empty path, get_media_url returns the CDN fetch URL (the
\* CDN host, the transformations of the variant, then the percent-encoded
\* proxy URL) exactly when the CDN is enabled and the category is 'image',
\* and otherwise exactly the self-hosted proxy URL of the path and variant.
C16_CdnIffEnabledAndImage ==
    (resp.endpoint = "get_media_url" /\ Truthy(resp.items[1].filepath)) =>
        LET a == resp.items[1]
            url == a.ret[1]
            proxy_url == get_public_proxy_url(a.filepath, a.is_thumbnail)[1]
            head == CdnHost \o CLOUDINARY_CLOUD_NAME
                    \o <<"/", "image", "/", "fetch", "/">>
                    \o transformations(a.is_thumbnail) \o <<"/">>
            wrapped == SubSeq(url, Len(head) + 1, Len(url))
        IN  /\ a.ret # NoneStr
            /\ starts_with(url, CdnHost) <=> (cloudinary /\ a.media_cat = "image")
            /\ (cloudinary /\ a.media_cat = "image") =>
                  /\ starts_with(url, head)
                  /\ \A i \in DOMAIN wrapped : wrapped[i] \notin {"/", ":", " "}
                  /\ unquote(wrapped) = proxy_url
            /\ ~(cloudinary /\ a.media_cat = "image") => url = proxy_url

C16_Witness ==
    /\ resp.endpoint = "get_media_url"
    /\ cloudinary
    /\ resp.items[1].media_cat = "image"
    /\ resp.items[1].filepath =
          Some(<<"/", "dir", "/", "a", " ", "b", ".", "png">>)
    /\ ~resp.items[1].is_thumbnail
    /\ resp.items[1].ret =
          Some(CdnHost \o <<"dkioeufik", "/", "image", "/", "fetch", "/",
                            "f_auto,q_auto", ":", "good,w_1200,c_limit", "/",
                            "https", "%3A", "%2F", "%2F", "backend", "%2F",
                            "api", "%2F", "media", "%2F", "public", "%2F",
                            "original", "%2F", "dir", "%2F", "a", "%20", "b",
                            ".", "png">>)

\* C17: the URLs shown for a record depend on the stored path, the variant
\* and the CDN setting only: a later resolution of the same record gives
\* the answer of the earlier one whatever the caches hold by then and
\* whatever requests ran in between, and a step of the metadata endpoint
\* leaves both caches and the lock as they are.
C17_UrlIndependentOfCaches ==
    [][/\ (resp # NoResp => resp' = resp)
       /\ (resp' # resp => UNCHANGED <<cache, cache_lock, req>>)]_vars

C17_Witness ==
    /\ resp.endpoint = "get_media_info"
    /\ resp.items[1].thumbnail_url # NoneStr
    /\ cache["thumbnail_cache"] # <<>>
    /\ cache["full_image_cache"] # <<>>

\* ------------------------------------------- claims on exports and summary
TableExports ==
    {"export_us_excel", "export_us_pdf", "export_materiali_excel",
     "export_materiali_pdf", "export_materials_search_excel",
     "export_materials_search_pdf", "export_pottery_excel",
     "export_pottery_pdf"}

SummaryExports ==
    {"export_inventory_summary_excel", "export_inventory_summary_pdf"}

SearchExports ==
    {"export_materials_search_excel", "export_materials_search_pdf"}

\* the items counted in the boxes of a storage breakdown
counted(storages) ==
    sum([g \in DOMAIN storages |->
            sum([b \in DOMAIN storages[g].boxes |->
                    storages[g].boxes[b].items])])

\* C18: an export whose query returns no row answers 404 without a
\* document; a document goes out only with status 200 and at least one
\* row, and it holds every row of the result: the table exports write the
\* rows in the order of the query, the summary workbook lists every row
\* once and both summaries count every row in their breakdown.
C18_NoEmptyExport ==
    resp.endpoint \in TableExports \cup SummaryExports =>
        /\ (resp.data = <<>> /\ resp.status \notin {400, 500}) =>
              resp.status = 404
        /\ resp.status # 200 => resp.document = NoDocument
        /\ resp.status = 200 =>
              /\ resp.data # <<>>
              /\ resp.document # NoDocument
              /\ resp.endpoint \in TableExports =>
                    resp.document.rows = resp.data
              /\ resp.endpoint \in SummaryExports =>
                    /\ resp.document.total_items = Len(resp.data)
                    /\ counted(resp.document.storages) = Len(resp.data)
              /\ resp.endpoint = "export_inventory_summary_excel" =>
                    /\ Len(resp.document.rows) = Len(resp.data)
                    /\ \A i \in DOMAIN resp.data :
                          \E j \in DOMAIN resp.document.rows :
                              resp.document.rows[j] = resp.data[i].id_invmat

C18_Witness ==
    /\ resp.endpoint = "export_us_excel"
    /\ resp.data = <<>>
    /\ resp.status = 404
    /\ resp.document = NoDocument

C18_DocumentWitness ==
    /\ resp.endpoint = "export_inventory_summary_excel"
    /\ resp.status = 200
    /\ resp.data = <<Mat(1, Some(<<"A">>), Some(1)), Mat(2, NoneStr, NoneInt),
                     Mat(3, Some(<<"A">>), NoneInt)>>
    /\ resp.document.rows = <<2, 3, 1>>

is_decimal(t) == t # <<>> /\ \A i \in DOMAIN t : t[i] \in DecimalDigits

\* C19: the materials search exports answer 400, without a document, every
\* ids value with a non-empty token between commas that is not a decimal
\* integer, and every ids value without any integer token.
C19_MalformedIdsRejected ==
    resp.endpoint \in SearchExports =>
        LET tokens == split(resp.ids, ",")
            malformed == \E i \in DOMAIN tokens :
                            tokens[i] # <<>> /\ ~is_decimal(strip(tokens[i]))
            no_integer == \A i \in DOMAIN tokens :
                            ~is_decimal(strip(tokens[i]))
        IN  (malformed \/ no_integer) =>
                resp.status = 400 /\ resp.document = NoDocument

\* the records of data that the summary puts in box nr of location luogo
in_box(data, luogo, nr) ==
    {i \in DOMAIN data :
        /\ or_str(data[i].luogo_conservazione, <<"Non specificato">>) = luogo
        /\ or_int(data[i].nr_cassa, 0) = nr}

\* C20: in a materials summary the item counts of the boxes of a location
\* add up to its total_items and its total_boxes is the number of boxes
\* listed; over the locations, total_items adds up to total_materials and
\* total_boxes to the total_boxes of the response; no box is listed twice
\* and each box counts exactly the matched records that belong to it, so
\* every record, with or without box and location, is counted once.
C20_SummaryCountsAddUp ==
    resp.endpoint = "get_materials_summary" =>
        LET locs == resp.storage_locations
        IN  /\ \A g \in DOMAIN locs :
                  /\ locs[g].total_items =
                        sum([b \in DOMAIN locs[g].boxes |->
                                locs[g].boxes[b].total_items])
                  /\ locs[g].total_boxes = Len(locs[g].boxes)
                  /\ \A b \in DOMAIN locs[g].boxes :
                        /\ locs[g].boxes[b].luogo_conservazione =
                              locs[g].luogo_conservazione
                        /\ locs[g].boxes[b].total_items =
                              Cardinality(in_box(resp.data,
                                  locs[g].luogo_conservazione,
                                  locs[g].boxes[b].nr_cassa))
                  /\ \A b, c \in DOMAIN locs[g].boxes :
                        b # c => locs[g].boxes[b].nr_cassa
                                 # locs[g].boxes[c].nr_cassa
            /\ \A g, h \in DOMAIN locs :
                  g # h => locs[g].luogo_conservazione
                           # locs[h].luogo_conservazione
            /\ sum([g \in DOMAIN locs |-> locs[g].total_items])
                  = resp.total_materials
            /\ sum([g \in DOMAIN locs |-> locs[g].total_boxes])
                  = resp.total_boxes
            /\ resp.total_materials = Len(resp.data)

C20_Witness ==
    /\ resp.endpoint = "get_materials_summary"
    /\ resp.data = <<Mat(1, Some(<<"A">>), Some(2)), Mat(2, NoneStr, NoneInt),
                     Mat(3, Some(<<"A">>), Some(0))>>
    /\ resp.total_materials = 3
    /\ resp.total_boxes = 3
    /\ resp.storage_locations =
          <<[luogo_conservazione |-> <<"A">>, total_boxes |-> 2,
             total_items |-> 2,
             boxes |-> <<[nr_cassa |-> 0, luogo_conservazione |-> <<"A">>,
                          total_items |-> 1],
                         [nr_cassa |-> 2, luogo_conservazione |-> <<"A">>,
                          total_items |-> 1]>>],
            [luogo_conservazione |-> <<"Non specificato">>, total_boxes |-> 1,
             total_items |-> 1,
             boxes |-> <<[nr_cassa |-> 0,
                          luogo_conservazione |-> <<"Non specificato">>,
                          total_items |-> 1]>>]>>

\* ------------------------------------------------ claims on the weights
\* C21: the materials summary reports an aggregate weight that is the sum
\* of the weights of the matched records, a record without weight adding
\* zero and still being counted in total_materials.
C21_SummaryWeightIsSum ==
    resp.endpoint = "get_materials_summary" =>
        /\ "total_weight" \in DOMAIN resp
        /\ resp.total_weight = weight(resp.data)
        /\ resp.total_materials = Len(resp.data)

\* C21, for the summary documents of export.py, which do compute a weight:
\* the total and the weights of the boxes are the sums of the weights of
\* their records with a missing weight as zero, and the total is shown in
\* kilograms with two decimals.
C21_ExportWeightIsSum ==
    (resp.endpoint \in SummaryExports /\ resp.status = 200) =>
        /\ resp.document.total_weight = weight(resp.data)
        /\ resp.document.total_items = Len(resp.data)
        /\ sum([g \in DOMAIN resp.document.storages |->
                  sum([b \in DOMAIN resp.document.storages[g].boxes |->
                          resp.document.storages[g].boxes[b].weight])])
              = weight(resp.data)
        /\ 10 * resp.document.total_weight_kg - resp.document.total_weight
              \in -5..5

C21_ExportWitness ==
    /\ resp.endpoint = "export_inventory_summary_pdf"
    /\ Len(resp.data) = 3
    /\ resp.document.total_weight = 1504
    /\ resp.document.total_weight_kg = 150

\* ------------------------------------------- claims on the image endpoints
other_cache(c) == IF c = "thumbnail_cache" THEN "full_image_cache"
                  ELSE "thumbnail_cache"

\* C22: with the CDN enabled a thumbnail or full-image request for an
\* existing record ends in a redirect (302), without a fetch and without
\* touching a cache, and both caches stay as they are; with the CDN
\* disabled such a request is never redirected, and its lookup and its
\* store act on the thumbnail cache for get_thumbnail and on the
\* full-image cache for get_full_image, leaving the other cache alone.
C22_RedirectOrProxy ==
    [][/\ cloudinary =>
             /\ UNCHANGED cache
             /\ \A c \in Caches : cache[c] = <<>>
             /\ \A r \in Requests : Proxied(r) =>
                   /\ req[r].pc = "done"
                   /\ req[r].status \in {302, 404}
                   /\ req[r].fetches = 0
                   /\ req[r].image_data = None
       /\ ~cloudinary =>
             \A r \in Requests : Proxied(r) =>
                 LET c == cache_of(req[r].handler)
                     k == cache_key(req[r].handler, req[r].media_id)
                 IN  /\ req[r].status # 302
                     /\ (req[r].pc \in {"lookup", "store"}
                         /\ req'[r].pc # req[r].pc) =>
                           /\ cache'[other_cache(c)] = cache[other_cache(c)]
                           /\ req[r].pc = "store" =>
                                 has_key(cache'[c], k)
                     /\ (req[r].pc = "done" /\ req[r].status = 200) =>
                           req[r].image_data # None]_vars

C22_Witness ==
    /\ cloudinary
    /\ \E q, r \in Requests :
          /\ req[q].handler = "get_thumbnail"
          /\ req[q].pc = "done" /\ req[q].status = 302
          /\ req[r].handler = "get_full_image"
          /\ req[r].pc = "done" /\ req[r].status = 302

C22_ProxyWitness ==
    /\ ~cloudinary
    /\ \E q, r \in Requests :
          /\ req[q].handler = "get_thumbnail" /\ req[q].pc = "store"
          /\ req[r].handler = "get_full_image" /\ req[r].pc = "done"
          /\ req[r].status = 200
          /\ cache["full_image_cache"] # <<>>

\* C23: a thumbnail or full-image request issues at most one fetch (none
\* when its lookup hits, no second one after a failure), holds the lock
\* only inside its lookup and its store, and, the fetch coming back, ends
\* with one response or error; the lock is always released again and no
\* request or clear_cache call stays blocked.
C23_OneFetchAndTermination ==
    /\ [](\A r \in Requests :
            /\ req[r].fetches \in {0, 1}
            /\ (req[r].pc = "done") = (req[r].status # 0)
            /\ Proxied(r) =>
                 /\ (req[r].pc = "respond" /\ req[r].remote = 0) =>
                        /\ req[r].fetches = 0
                        /\ req[r].image_data # None
                 /\ (req[r].request_error \/ req[r].remote \notin {0, 200}) =>
                        /\ req[r].pc = "done"
                        /\ req[r].fetches = 1
                 /\ cache_lock = r => req[r].pc \in {"lookup", "store"})
    /\ \A r \in Requests :
          (req[r].pc \notin {"idle", "done"}) ~> (req[r].pc = "done")
    /\ (cache_lock # NoHolder) ~> (cache_lock = NoHolder)

C23_Witness ==
    \E q, r \in Requests :
        /\ Proxied(q) /\ req[q].pc = "done" /\ req[q].request_error
        /\ req[q].fetches = 1
        /\ Proxied(r) /\ req[r].pc = "done" /\ req[r].status = 200
        /\ req[r].fetches = 0
        /\ cache_lock = NoHolder

\* ------------------------------------------ claims on the paginated lists
PagedEndpoints == {"get_sites_paginated", "get_us_paginated",
                   "get_materiali_paginated", "get_pottery_paginated"}

\* the rows that match the filter of response a
matching(a) ==
    IF a.endpoint = "get_sites_paginated" THEN filter_search(db, a.filter)
    ELSE filter_sito(db, a.filter)

sort_key(endpoint, row) ==
    IF endpoint = "get_us_paginated" THEN us_key(row) ELSE nr_key(row)

ids(items) == {items[i].id : i \in DOMAIN items}

\* what every page of a listing has to be, whatever the order of the rows
page_shape(a) ==
    LET m == matching(a)
        total == Cardinality(m)
        first == (a.page - 1) * a.page_size
        left == IF total > first THEN total - first ELSE 0
    IN  /\ a.total = total
        /\ a.total_pages * a.page_size >= total
        /\ (a.total_pages - 1) * a.page_size < total \/ a.total_pages = 0
        /\ (total = 0) = (a.total_pages = 0)
        /\ Len(a.items) = IF left < a.page_size THEN left ELSE a.page_size
        /\ ids(a.items) \subseteq {row.id : row \in m}
        /\ Cardinality(ids(a.items)) = Len(a.items)
        /\ a.page > a.total_pages => a.items = <<>>

\* the item at offset o of the page is the row with first + o rows before
\* it in the order of the endpoint
page_in_order(a) ==
    \A i \in DOMAIN a.items :
        LET row == CHOOSE r \in matching(a) : r.id = a.items[i].id
        IN  Cardinality({r \in matching(a) :
                            sort_key(a.endpoint, r)
                                < sort_key(a.endpoint, row)})
                = (a.page - 1) * a.page_size + i - 1

\* two pages of one listing: the same page has the same rows, different
\* pages have no row in common
pages_partition(a, b) ==
    same_listing(a, b) =>
        IF a.page = b.page
        THEN [i \in DOMAIN a.items |-> a.items[i].id]
                 = [i \in DOMAIN b.items |-> b.items[i].id]
        ELSE ids(a.items) \cap ids(b.items) = {}

\* C24: every page of every paginated endpoint reports the number of
\* matching rows and its ceiling quotient by page_size, holds the rows
\* at its offsets, and is empty beyond the last page; pages of one
\* listing hold every matching row exactly once.
C24_PagesPartitionResult ==
    resp.endpoint \in PagedEndpoints =>
        /\ page_shape(resp)
        /\ prev.endpoint \in PagedEndpoints => pages_partition(prev, resp)

\* the same for the three endpoints whose query has an order_by, where
\* the page also holds its rows in the order of the endpoint
C24_OrderedPagesPartitionResult ==
    /\ resp.endpoint \in PagedEndpoints => page_shape(resp)
    /\ resp.endpoint \in PagedEndpoints \ {"get_sites_paginated"} =>
          /\ page_in_order(resp)
          /\ prev.endpoint \in PagedEndpoints => pages_partition(prev, resp)

C24_OrderedWitness ==
    /\ resp.endpoint = "get_us_paginated"
    /\ resp.total = 3 /\ resp.page_size = 2 /\ resp.total_pages = 2
    /\ resp.page = 2 /\ Len(resp.items) = 1 /\ resp.items[1].id = 3
    /\ prev.endpoint = "get_us_paginated" /\ prev.page = 1
    /\ prev.items[1].id = 2 /\ prev.items[2].id = 1

C24_BeyondLastPageWitness ==
    /\ resp.endpoint = "get_materiali_paginated"
    /\ resp.total = 3 /\ resp.page_size = 2 /\ resp.page = 3
    /\ resp.items = <<>>

\* C25: a mapping never holds more than maxsize + 1 entries.  It comes to
\* hold maxsize + 1 only by a set of a key that is absent once the
\* cleanup of that set has run; it then keeps that size through get,
\* contains and the passing of time at most, and the next len, or the next
\* set of a key that its cleanup leaves in place, brings it back to
\* maxsize or less.
C25_AtMostOneOverMaxsize ==
    [][\A c \in Caches :
          LET over(m) == Len(m) = maxsize(c) + 1
              on(op) == CallStep(op) /\ last'.cache = c
              swept == cleanup(c, cache[c], now)
          IN  /\ Len(cache[c]) <= maxsize(c) + 1
              /\ Len(cache'[c]) <= maxsize(c) + 1
              /\ (over(cache'[c]) /\ ~over(cache[c])) =>
                    on("set") /\ ~has_key(swept, last'.key)
              /\ (over(cache'[c]) /\ over(cache[c])) =>
                    \/ on("set") /\ ~has_key(swept, last'.key)
                    \/ cache'[c] = cache[c] /\ ~on("len") /\ ~on("set")
              /\ on("len") => Len(cache'[c]) <= maxsize(c)
              /\ (on("set") /\ has_key(swept, last'.key)) =>
                    Len(cache'[c]) <= maxsize(c)
              /\ on("clear") => cache'[c] = <<>>]_vars

C25_Witness ==
    /\ last.op = "contains"
    /\ last.cache = "thumbnail_cache"
    /\ Len(cache["thumbnail_cache"]) = ThumbMaxsize + 1
    /\ now > last.time

failed(q) == q.request_error \/ q.remote \notin {0, 200}

\* C26: a request whose fetch fails (another status than 200, or
\* httpx.RequestError) touches the cache in its initial lookup only: the
\* step in which the fetch fails and every later step of the request
\* leave both mappings and the lock as they are, the request ends with
\* an error status and no payload, and what the mappings hold are
\* payloads, never an error.
C26_FailedFetchWritesNothing ==
    [][/\ \A c \in Caches : \A i \in 1..Len(cache[c]) :
             cache[c][i].v \in Payloads
       /\ \A r \in Requests :
             (Acts(r) /\ (failed(req[r]) \/ failed(req'[r]))) =>
                 /\ cache' = cache
                 /\ cache_lock' = cache_lock
                 /\ failed(req'[r]) =>
                       /\ req[r].pc = "fetching"
                       /\ req'[r].pc = "done"
                       /\ req'[r].status \notin {0, 200}
                       /\ req'[r].image_data = None
                       /\ req'[r].x_cache = "none"]_vars

C26_Witness ==
    \E r \in Requests :
        /\ Proxied(r)
        /\ req[r].pc = "done"
        /\ failed(req[r])
        /\ LET c == cache_of(req[r].handler)
               k == cache_key(req[r].handler, req[r].media_id)
           IN  /\ has_key(cache[c], k)
               /\ get(c, cache[c], k, now).ret # None

\* C27 (as claimed): a thumbnail or full-image response carries X-Cache
\* HIT exactly when its payload came from the cache without a fetch, and
\* MISS exactly when the request performed a fetch.
C27_XCacheTellsFetch ==
    \A r \in Requests :
        (Proxied(r) /\ req[r].pc = "done" /\ req[r].status = 200) =>
            /\ (req[r].x_cache = "HIT") = (req[r].fetches = 0)
            /\ (req[r].x_cache = "MISS") = (req[r].fetches = 1)

\* what the header tells is whether the key is live in the cache when the
\* response is built: HIT after a fetch and its store, MISS after a cache
\* hit whose entry has expired or was cleared since
C27_HitAfterFetchWitness ==
    \E r \in Requests :
        /\ Proxied(r) /\ req[r].pc = "done" /\ req[r].status = 200
        /\ req[r].fetches = 1 /\ req[r].x_cache = "HIT"

C27_MissAfterCacheHitWitness ==
    \E r \in Requests :
        /\ Proxied(r) /\ req[r].pc = "done" /\ req[r].status = 200
        /\ req[r].fetches = 0 /\ req[r].x_cache = "MISS"

\* C28: clear_cache empties both caches in a single step, taken while it
\* holds the lock, and leaves every other request as it is: a request
\* that has missed and is fetching, or waits to store its payload, goes on
\* and its store inserts the payload into the cleared cache.
C28_ClearIsAtomicAndKeepsFetches ==
    [][\A r \in Requests :
          /\ (req[r].handler = "clear_cache" /\ req[r].pc = "clear"
              /\ Acts(r)) =>
                /\ cache_lock = r
                /\ cache_lock' = NoHolder
                /\ \A c \in Caches : cache'[c] = <<>>
                /\ req'[r].pc = "done"
                /\ \A q \in Requests \ {r} : req'[q] = req[q]
          /\ (Proxied(r) /\ req[r].pc = "store" /\ Acts(r)) =>
                LET c == cache_of(req[r].handler)
                    k == cache_key(req[r].handler, req[r].media_id)
                IN  /\ has_key(cache'[c], k)
                    /\ cache'[c][index_of(cache'[c], k)].v
                           = req[r].image_data
                    /\ cache'[c][index_of(cache'[c], k)].ts = now]_vars

C28_Witness ==
    \E q, r \in Requests :
        /\ req[q].handler = "clear_cache" /\ req[q].pc = "done"
        /\ Proxied(r) /\ req[r].pc = "respond" /\ req[r].fetches = 1
        /\ LET c == cache_of(req[r].handler)
           IN  /\ cache[c] = <<[k |-> cache_key(req[r].handler,
                                                 req[r].media_id),
                                v |-> req[r].image_data,
                                ts |-> cache[c][1].ts]>>
               /\ cache[other_cache(c)] = <<>>

\* the state in which the clear is about to act while a request that
\* missed holds its fetched payload
C28_InFlightWitness ==
    \E q, r \in Requests :
        /\ req[q].handler = "clear_cache" /\ req[q].pc = "clear"
        /\ Proxied(r) /\ req[r].pc = "store_wait"
        /\ \A c \in Caches : cache[c] # <<>>

\* C29: the payload a thumbnail or full-image request returns is the one
\* its own fetch delivered, or the one found in the cache of its endpoint
\* under its own key and stored there at most ttl ago; every entry of a
\* cache was stored under the key of the storing request with the payload
\* that request fetched; thumbnail keys live in the thumbnail cache only,
\* full-image keys in the full-image cache only, and no thumbnail key
\* equals a full-image key.
C29_PayloadIsOwnOrCachedUnderKey ==
    [][/\ \A i, j \in 1..NumKeys : thumb_key(i) # full_key(j)
       /\ \A c \in Caches : \A i \in 1..Len(cache'[c]) :
             LET e == cache'[c][i]
             IN  /\ e.k \in Keys(c)
                 /\ (\A j \in 1..Len(cache[c]) : cache[c][j] # e) =>
                       \E r \in Requests :
                           /\ Proxied(r) /\ req[r].pc = "store" /\ Acts(r)
                           /\ c = cache_of(req[r].handler)
                           /\ e.k = cache_key(req[r].handler,
                                              req[r].media_id)
                           /\ e.v = req[r].image_data
                           /\ req[r].fetches = 1 /\ req[r].remote = 200
       /\ \A r \in Requests : Proxied(r) =>
             LET c == cache_of(req[r].handler)
                 k == cache_key(req[r].handler, req[r].media_id)
             IN  /\ (req[r].pc = "lookup" /\ req'[r].pc = "respond") =>
                       /\ req'[r].fetches = 0
                       /\ \E i \in 1..Len(cache[c]) :
                             /\ cache[c][i].k = k
                             /\ cache[c][i].v = req'[r].image_data
                             /\ now - cache[c][i].ts <= ttl(c)
                 /\ (req[r].pc = "fetching" /\ req'[r].pc = "store_wait") =>
                       /\ req'[r].image_data \in Payloads
                       /\ req'[r].fetches = 1 /\ req'[r].remote = 200
                 /\ (req[r].image_data # None /\ req'[r].pc # "idle") =>
                       req'[r].image_data = req[r].image_data
                 /\ (req'[r].pc = "done" /\ req'[r].status = 200) =>
                       req'[r].image_data # None]_vars

C29_Witness ==
    \E r \in Requests :
        /\ req[r].handler = "get_thumbnail"
        /\ req[r].pc = "done" /\ req[r].status = 200
        /\ req[r].fetches = 0
        /\ has_key(cache["thumbnail_cache"], thumb_key(req[r].media_id))
        /\ has_key(cache["full_image_cache"], full_key(req[r].media_id))
        /\ cache["full_image_cache"][1].v # req[r].image_data
        /\ cache["thumbnail_cache"][1].v = req[r].image_data

ImageEndpoints == {"get_thumbnail", "get_full_image"}

\* the URL the metadata endpoints report for the record
reported_url(h, thumb) ==
    IF h = "get_thumbnail"
    THEN MediaResponse(thumb, item_category(thumb)).thumbnail_url
    ELSE MediaResponse(thumb, item_category(thumb)).full_url

\* C30 (as claimed): the URL the thumbnail (full-image) endpoint redirects
\* to or fetches from is the thumbnail_url (full_url) the metadata
\* endpoints report for the same record; for a record classified as video
\* or 3d with the CDN enabled both are the proxy URL.
C30_EndpointUrlIsReportedUrl ==
    (resp.endpoint \in ImageEndpoints /\ resp.items # <<>>) =>
        LET thumb == resp.items[1].thumb
            url == resp.items[1].url
        IN  /\ url = reported_url(resp.endpoint, thumb)
            /\ (cloudinary /\ item_category(thumb) # "image") =>
                  ~starts_with(url[1], CdnHost)

\* what holds: the two agree when the CDN is disabled and for the records
\* classified as image
C30_SameUrlForImagesOrWithoutCdn ==
    (resp.endpoint \in ImageEndpoints /\ resp.items # <<>>) =>
        LET thumb == resp.items[1].thumb
            url == resp.items[1].url
        IN  /\ (~cloudinary \/ item_category(thumb) = "image") =>
                  url = reported_url(resp.endpoint, thumb)
            /\ cloudinary = starts_with(url[1], CdnHost)
            /\ resp.status = IF cloudinary THEN 302 ELSE 0

C30_VideoRedirectWitness ==
    /\ cloudinary
    /\ resp.endpoint = "get_thumbnail" /\ resp.status = 302
    /\ item_category(resp.items[1].thumb) = "video"
    /\ starts_with(resp.items[1].url[1], CdnHost)
    /\ ~starts_with(reported_url("get_thumbnail", resp.items[1].thumb)[1],
                    CdnHost)

====
